---- MODULE Spec2Model ----
(***************************************************************************)
(* TabFocus service worker: the group-visibility and session-state engine.  *)
(*                                                                         *)
(* The provider (chrome.tabs / chrome.tabGroups) is the pair               *)
(* <<tabs, chromeGroups>>, the persisted store (chrome.storage.local) is   *)
(* the st* variables, and the module-level state of the service worker is  *)
(* activeGroupId and hiddenTabIds.  Every async handler is a process in hs *)
(* that advances from one await to the next; the effect of an awaited call *)
(* is taken when the call is issued, and the code after the await runs in  *)
(* the handler's next step.  The two queries of getTabGroups are issued    *)
(* together (Promise.all): the tab query is answered when issued, the      *)
(* group query in the following step.                                      *)
(***************************************************************************)
EXTENDS Integers, Sequences, FiniteSets, TLC

VARIABLES
    tabs,           \* provider: tabs of the current window, in window order
    chromeGroups,   \* provider: tab groups of the window, in provider order
    nextTabId,      \* provider: next fresh tab id
    nextGroupId,    \* provider: next fresh group id
    stActiveGroupId,\* store key 'activeGroupId'
    stSettings,     \* store key 'settings'
    stSessions,     \* store key 'sessions'
    activeGroupId,  \* service worker: let activeGroupId
    hiddenTabIds,   \* service worker: let hiddenTabIds
    hs,             \* the async handlers in flight, one record per slot
    resp,           \* the response the dispatcher sent for each slot
    lastCmd,        \* the last provider command a handler issued
    since,          \* what has just succeeded with nothing after it; "none"
    nextSessionId,  \* number of ids generateId has produced
    envCount,       \* number of changes the user has made to the window
    suspendedTabs,  \* service worker: let suspendedTabs, in insertion order
    tabLastActiveTime, \* service worker: let tabLastActiveTime, 0 = no entry
    clock,          \* Date.now(), in minutes
    removedPending, \* closed tabs whose onRemoved listener awaits updateBadge
    currentDuplicates, \* popup: let currentDuplicates, in key order
    alarms,         \* chrome.alarms: the names of the alarms scheduled
    timeouts,       \* setTimeout callbacks of debouncedSave not yet run
    stGroups        \* store key 'groups'

vars == <<tabs, chromeGroups, nextTabId, nextGroupId, stActiveGroupId,
          stSettings, stSessions, activeGroupId, hiddenTabIds, hs, resp,
          lastCmd, since, nextSessionId, envCount, suspendedTabs,
          tabLastActiveTime, clock, removedPending, currentDuplicates,
          alarms, timeouts, stGroups>>

provider == <<tabs, chromeGroups, nextTabId, nextGroupId>>
store    == <<stActiveGroupId, stSettings, stSessions>>
suspension == <<suspendedTabs, tabLastActiveTime, clock, removedPending>>
background == <<alarms, timeouts, stGroups>>

----------------------------------------------------------------------------
(* Bounds *)

MaxTabs == 2        \* tabs open when the service worker starts
InitGroups == 2     \* groups present when the service worker starts
MaxEnvChanges == 1  \* changes the user makes to the window
MaxSessionsBound == 2   \* largest maxSessions setting tried
MaxClock == 3       \* minutes the clock runs to
MaxSaves == 4       \* session ids generateId hands out

----------------------------------------------------------------------------
(* Constants of the program *)

NULL == "null"
TAB_GROUP_ID_NONE == 0 - 1
UNGROUPED == "ungrouped"

Handlers == {1, 2}

\* the tab and group ids the provider can hand out within the bounds
MaxTabId == MaxTabs + MaxEnvChanges
MaxGroupId == InitGroups + MaxEnvChanges

GroupIdOf(n) == "chrome-" \o ToString(n)

Min(a, b) == IF a < b THEN a ELSE b

Range(s) == {s[i] : i \in 1..Len(s)}

MapSeq(s, F(_)) == [i \in 1..Len(s) |-> F(s[i])]

----------------------------------------------------------------------------
(* Snapshot Builder: getTabGroups *)

TabData(tab) ==
    [id |-> tab.id, url |-> tab.url, suspended |-> FALSE,
     pinned |-> tab.pinned, active |-> tab.active]

IsGrouped(tab) == tab.groupId # 0 /\ tab.groupId # TAB_GROUP_ID_NONE

GroupMapGet(qt, gid) ==
    MapSeq(SelectSeq(qt, LAMBDA t : IsGrouped(t) /\ t.groupId = gid), TabData)

UngroupedTabs(qt) ==
    MapSeq(SelectSeq(qt, LAMBDA t : ~IsGrouped(t)), TabData)

RealGroup(qt, cg) ==
    [id |-> GroupIdOf(cg.id), chromeGroupId |-> cg.id,
     name |-> IF cg.title = "" THEN "Unnamed Group" ELSE cg.title,
     color |-> cg.color, tabs |-> GroupMapGet(qt, cg.id),
     collapsed |-> cg.collapsed]

UngroupedGroup(qt) ==
    [id |-> UNGROUPED, chromeGroupId |-> 0 - 1, name |-> "Ungrouped",
     color |-> "grey", tabs |-> UngroupedTabs(qt), collapsed |-> FALSE]

\* appends the bucket also when no tab is ungrouped
GetTabGroups_BucketAlways(qt, qg) ==
    [i \in 1..Len(qg) |-> RealGroup(qt, qg[i])] \o <<UngroupedGroup(qt)>>

GetTabGroups(qt, qg) ==
    [i \in 1..Len(qg) |-> RealGroup(qt, qg[i])]
      \o (IF Len(UngroupedTabs(qt)) > 0 THEN <<UngroupedGroup(qt)>> ELSE <<>>)

FindGroup(groups, groupId) ==
    LET idx == {i \in 1..Len(groups) : groups[i].id = groupId}
    IN  IF idx = {} THEN 0 ELSE CHOOSE i \in idx : \A j \in idx : i <= j

----------------------------------------------------------------------------
(* Provider commands issued by the handlers *)

NoCmd == [op |-> "none", id |-> 0]

TabExists(ts, tabId) == \E i \in 1..Len(ts) : ts[i].id = tabId

GroupExists(cgs, gid) == \E i \in 1..Len(cgs) : cgs[i].id = gid

\* a provider group lives as long as it holds a tab
RemoveEmptyGroups(ts, cgs) ==
    SelectSeq(cgs, LAMBDA g : \E i \in 1..Len(ts) : ts[i].groupId = g.id)

RemoveAt(s, i) == [j \in 1..(Len(s) - 1) |-> IF j < i THEN s[j] ELSE s[j + 1]]

\* chrome.tabGroups.update(gid, {collapsed})
SetCollapsed(cgs, gid, c) ==
    [i \in 1..Len(cgs) |->
        IF cgs[i].id = gid THEN [cgs[i] EXCEPT !.collapsed = c] ELSE cgs[i]]

\* chrome.tabs.update(tabId, {active: true}): the tab becomes the one active
\* tab of the window
SetActive(ts, tabId) ==
    [i \in 1..Len(ts) |-> [ts[i] EXCEPT !.active = (ts[i].id = tabId)]]

\* The command succeeds iff its target exists in the provider
OpOk(op, ts, cgs) ==
    IF op.op \in {"collapse", "expand"} THEN GroupExists(cgs, op.id)
    ELSE TabExists(ts, op.id)

\* chrome.tabs.update(tabId, {active: false}) leaves the active tab alone
OpTabs(op, ts) ==
    IF op.op = "activate" /\ TabExists(ts, op.id) THEN SetActive(ts, op.id)
    ELSE ts

OpGroups(op, cgs) ==
    IF op.op = "collapse" THEN SetCollapsed(cgs, op.id, TRUE)
    ELSE IF op.op = "expand" THEN SetCollapsed(cgs, op.id, FALSE)
    ELSE cgs

----------------------------------------------------------------------------
(* Focus Controller: the awaited provider calls of hideOtherGroups and      *)
(* showAllGroups, in the order the loops issue them                         *)

RECURSIVE Flatten(_)
Flatten(ss) == IF Len(ss) = 0 THEN <<>> ELSE Head(ss) \o Flatten(Tail(ss))

\* hides pinned tabs too
HideTabOps_AllTabs(group) ==
    MapSeq(group.tabs, LAMBDA t : [op |-> "deactivate", id |-> t.id])

HideTabOps(group) ==
    MapSeq(SelectSeq(group.tabs, LAMBDA t : ~t.pinned),
           LAMBDA t : [op |-> "deactivate", id |-> t.id])

\* leaves the ungrouped bucket alone whatever the setting says
HideGroupOps_AlwaysShowUngrouped(group, groupId, settings) ==
    IF group.id = groupId THEN <<>>
    ELSE IF group.id = UNGROUPED THEN <<>>
    ELSE MapSeq(SelectSeq(group.tabs, LAMBDA t : ~t.pinned),
                LAMBDA t : [op |-> "deactivate", id |-> t.id])
           \o (IF group.chromeGroupId > 0
               THEN <<[op |-> "collapse", id |-> group.chromeGroupId]>>
               ELSE <<>>)

\* skips a group the snapshot shows as collapsed already
HideGroupOps_SkipCollapsed(group, groupId, settings) ==
    IF group.id = groupId THEN <<>>
    ELSE IF group.id = UNGROUPED /\ settings.showUngroupedTabs THEN <<>>
    ELSE IF group.collapsed THEN <<>>
    ELSE MapSeq(SelectSeq(group.tabs, LAMBDA t : ~t.pinned),
                LAMBDA t : [op |-> "deactivate", id |-> t.id])
           \o (IF group.chromeGroupId > 0
               THEN <<[op |-> "collapse", id |-> group.chromeGroupId]>>
               ELSE <<>>)

HideGroupOps(group, groupId, settings) ==
    IF group.id = groupId THEN <<>>
    ELSE IF group.id = UNGROUPED /\ settings.showUngroupedTabs THEN <<>>
    ELSE HideTabOps(group)
           \o (IF group.chromeGroupId > 0
               THEN <<[op |-> "collapse", id |-> group.chromeGroupId]>>
               ELSE <<>>)

TargetOps(targetGroup) ==
    (IF targetGroup.chromeGroupId > 0
     THEN <<[op |-> "expand", id |-> targetGroup.chromeGroupId]>> ELSE <<>>)
    \o (IF Len(targetGroup.tabs) > 0
        THEN <<[op |-> "activate", id |-> targetGroup.tabs[1].id]>> ELSE <<>>)

\* expands the target before it collapses the others
HideOps_TargetFirst(groups, groupId, settings) ==
    TargetOps(groups[FindGroup(groups, groupId)])
      \o Flatten([i \in 1..Len(groups) |->
                    HideGroupOps(groups[i], groupId, settings)])

HideOps(groups, groupId, settings) ==
    Flatten([i \in 1..Len(groups) |-> HideGroupOps(groups[i], groupId, settings)])
      \o TargetOps(groups[FindGroup(groups, groupId)])

\* the loop starts one group too late
ShowOps_SkipFirst(groups) ==
    MapSeq(SelectSeq(SubSeq(groups, 2, Len(groups)),
                     LAMBDA g : g.chromeGroupId > 0),
           LAMBDA g : [op |-> "expand", id |-> g.chromeGroupId])

ShowOps(groups) ==
    MapSeq(SelectSeq(groups, LAMBDA g : g.chromeGroupId > 0),
           LAMBDA g : [op |-> "expand", id |-> g.chromeGroupId])

----------------------------------------------------------------------------
(* Handler records *)

NoPre == [valid |-> FALSE, clean |-> FALSE, activeGroupId |-> NULL,
          stActiveGroupId |-> NULL, hidden |-> {}, collapsed |-> {}]

NoSession ==
    [id |-> 0, name |-> "", groups |-> <<>>, createdAt |-> 0, tabCount |-> 0]

NoSettings == [showUngroupedTabs |-> TRUE, maxSessions |-> 0]

Url(scheme, host, path) ==
    [scheme |-> scheme, host |-> host, path |-> path, query |-> <<>>]

\* tab.url undefined or ''
NoUrl == Url("", <<>>, <<>>)

NoTab ==
    [id |-> 0, url |-> NoUrl, title |-> "", favIconUrl |-> "",
     pinned |-> FALSE, active |-> FALSE, groupId |-> TAB_GROUP_ID_NONE]

NoInfo == [tabId |-> 0, originalUrl |-> NoUrl, title |-> "", favicon |-> ""]

NoWas == [tabs |-> <<>>, suspended |-> <<>>, tl |-> <<>>]

NoWin ==
    [tabs |-> <<>>, chromeGroups |-> <<>>, sessions |-> <<>>,
     nextTabId |-> 0, nextGroupId |-> 0, fresh |-> FALSE]

IdleH == [kind |-> "idle", pc |-> "idle", arg |-> "", qt |-> <<>>,
          qg |-> <<>>, groups |-> <<>>, ops |-> <<>>, k |-> 0, ok |-> TRUE,
          data |-> NULL, pre |-> NoPre, session |-> NoSession,
          sessions |-> <<>>, settings |-> NoSettings, sid |-> 0,
          append |-> FALSE, cur |-> 0, made |-> <<>>, gid |-> 0,
          win |-> NoWin, tab |-> NoTab, info |-> NoInfo,
          tabSettings |-> NoSettings, now |-> 0, last |-> 0,
          result |-> <<>>, visited |-> {}, updates |-> <<>>,
          was |-> NoWas, map |-> <<>>, count |-> 0, domain |-> <<>>,
          favicon |-> "", flag |-> FALSE, ignore |-> FALSE,
          confirmed |-> FALSE]

NoResp == [status |-> "none", error |-> ""]
OkResp == [status |-> "ok", error |-> ""]
ErrResp(msg) == [status |-> "error", error |-> msg]

AllIdle == \A h \in Handlers : hs[h].kind = "idle"

CollapsedSet(cgs) == {cgs[i].id : i \in {j \in 1..Len(cgs) : cgs[j].collapsed}}

PreState ==
    [valid |-> TRUE, clean |-> (since = "clean"),
     activeGroupId |-> activeGroupId, stActiveGroupId |-> stActiveGroupId,
     hidden |-> hiddenTabIds, collapsed |-> CollapsedSet(chromeGroups)]

----------------------------------------------------------------------------
(* Steps shared by the handlers *)

SetH(h, rec) == hs' = [hs EXCEPT ![h] = rec]

\* the catch clause logs the error and sends nothing
Fail_Silent(h, msg) ==
    /\ SetH(h, [hs[h] EXCEPT !.pc = "done"])
    /\ resp' = [resp EXCEPT ![h] = NoResp]

\* The async body of handleMessage threw: catch, sendResponse({success:false})
Fail(h, msg) ==
    /\ SetH(h, [hs[h] EXCEPT !.pc = "done"])
    /\ resp' = [resp EXCEPT ![h] = ErrResp(msg)]

\* Code after the await of ops[k] up to and including the next awaited
\* provider call; Finale is the code after the last provider call
IssueNext(h) ==
    LET op == hs[h].ops[hs[h].k + 1]
    IN  /\ SetH(h, [hs[h] EXCEPT !.k = @ + 1,
                                 !.ok = OpOk(op, tabs, chromeGroups)])
        /\ tabs' = OpTabs(op, tabs)
        /\ chromeGroups' = OpGroups(op, chromeGroups)
        /\ lastCmd' = op

\* The handler's promise settled and its slot is free again
Return(h) ==
    /\ hs[h].pc = "done"
    /\ SetH(h, IdleH)
    /\ since' = IF hs[h].kind = "focus" /\ resp[h].status = "ok"
                THEN "clean"
                ELSE IF hs[h].kind = "save" /\ resp[h].status = "ok"
                THEN "saved"
                ELSE IF hs[h].kind \in {"modal", "keepFirst"} /\ hs[h].flag
                THEN "listed"
                ELSE IF hs[h].kind = "closeAll" /\ hs[h].flag
                THEN "reduced" ELSE "none"
    /\ lastCmd' = NoCmd
    /\ resp' = [resp EXCEPT ![h] = NoResp]
    /\ UNCHANGED <<provider, store, activeGroupId, hiddenTabIds,
                   nextSessionId, envCount, currentDuplicates, background, suspension>>

----------------------------------------------------------------------------
(* HIDE_OTHER_GROUPS: hideOtherGroups *)

StartFocus(h, groupId) ==
    /\ hs[h].kind = "idle"
    /\ SetH(h, [IdleH EXCEPT !.kind = "focus", !.pc = "snap", !.arg = groupId,
                             !.qt = tabs, !.pre = PreState])
    /\ resp' = [resp EXCEPT ![h] = NoResp]
    /\ UNCHANGED <<provider, store, activeGroupId, hiddenTabIds, lastCmd,
                   since, nextSessionId, envCount, currentDuplicates, background, suspension>>

\* clears hiddenTabIds before it looks the target up
FocusSnapshot_ClearFirst(h) ==
    /\ hs[h].kind = "focus" /\ hs[h].pc = "snap"
    /\ hiddenTabIds' = {}
    /\ LET groups == GetTabGroups(hs[h].qt, chromeGroups)
       IN  IF FindGroup(groups, hs[h].arg) = 0
           THEN Fail(h, "Group not found")
           ELSE /\ SetH(h, [hs[h] EXCEPT
                      !.pc = "ops", !.groups = groups, !.k = 0, !.ok = TRUE,
                      !.ops = HideOps(groups, hs[h].arg, stSettings)])
                /\ UNCHANGED resp
    /\ UNCHANGED <<provider, store, activeGroupId, lastCmd,
                   since, nextSessionId, envCount, currentDuplicates, background, suspension>>

FocusSnapshot(h) ==
    /\ hs[h].kind = "focus" /\ hs[h].pc = "snap"
    /\ LET groups == GetTabGroups(hs[h].qt, chromeGroups)
       IN  IF FindGroup(groups, hs[h].arg) = 0
           THEN Fail(h, "Group not found")
           ELSE /\ SetH(h, [hs[h] EXCEPT
                      !.pc = "ops", !.groups = groups, !.k = 0, !.ok = TRUE,
                      !.ops = HideOps(groups, hs[h].arg, stSettings)])
                /\ UNCHANGED resp
    /\ UNCHANGED <<provider, store, activeGroupId, hiddenTabIds, lastCmd,
                   since, nextSessionId, envCount, currentDuplicates, background, suspension>>

HiddenAfter(h) ==
    IF hs[h].k = 0 THEN {}
    ELSE IF hs[h].ops[hs[h].k].op = "deactivate"
         THEN hiddenTabIds \cup {hs[h].ops[hs[h].k].id}
         ELSE hiddenTabIds

FocusStep(h) ==
    /\ hs[h].kind = "focus" /\ hs[h].pc = "ops"
    /\ IF ~hs[h].ok
       THEN /\ Fail(h, "No such tab or group")
            /\ UNCHANGED <<provider, store, activeGroupId, hiddenTabIds,
                           lastCmd>>
       ELSE IF hs[h].k < Len(hs[h].ops)
       THEN /\ IssueNext(h)
            /\ hiddenTabIds' = HiddenAfter(h)
            /\ UNCHANGED <<nextTabId, nextGroupId, store, activeGroupId, resp>>
       ELSE /\ hiddenTabIds' = HiddenAfter(h)
            /\ activeGroupId' = hs[h].arg
            /\ stActiveGroupId' = hs[h].arg
            /\ SetH(h, [hs[h] EXCEPT !.pc = "badge"])
            /\ UNCHANGED <<provider, stSettings, stSessions, resp, lastCmd>>
    /\ UNCHANGED <<since, nextSessionId, envCount, currentDuplicates, background, suspension>>

\* await updateBadge(), then sendResponse({success: true})
Badge(h) ==
    /\ hs[h].kind \in {"focus", "unfocus"} /\ hs[h].pc = "badge"
    /\ SetH(h, [hs[h] EXCEPT !.pc = "done"])
    /\ resp' = [resp EXCEPT ![h] = OkResp]
    /\ UNCHANGED <<provider, store, activeGroupId, hiddenTabIds, lastCmd,
                   since, nextSessionId, envCount, currentDuplicates, background, suspension>>

----------------------------------------------------------------------------
(* SHOW_ALL_GROUPS: showAllGroups *)

StartUnfocus(h) ==
    /\ hs[h].kind = "idle"
    /\ SetH(h, [IdleH EXCEPT !.kind = "unfocus", !.pc = "snap", !.qt = tabs,
                             !.pre = PreState])
    /\ resp' = [resp EXCEPT ![h] = NoResp]
    /\ UNCHANGED <<provider, store, activeGroupId, hiddenTabIds, lastCmd,
                   since, nextSessionId, envCount, currentDuplicates, background, suspension>>

UnfocusSnapshot(h) ==
    /\ hs[h].kind = "unfocus" /\ hs[h].pc = "snap"
    /\ LET groups == GetTabGroups(hs[h].qt, chromeGroups)
       IN  SetH(h, [hs[h] EXCEPT !.pc = "ops", !.groups = groups, !.k = 0,
                                 !.ok = TRUE, !.ops = ShowOps(groups)])
    /\ UNCHANGED <<provider, store, activeGroupId, hiddenTabIds, resp, lastCmd,
                   since, nextSessionId, envCount, currentDuplicates, background, suspension>>

UnfocusStep(h) ==
    /\ hs[h].kind = "unfocus" /\ hs[h].pc = "ops"
    /\ IF ~hs[h].ok
       THEN /\ Fail(h, "No such tab or group")
            /\ UNCHANGED <<provider, store, activeGroupId, hiddenTabIds,
                           lastCmd>>
       ELSE IF hs[h].k < Len(hs[h].ops)
       THEN /\ IssueNext(h)
            /\ UNCHANGED <<nextTabId, nextGroupId, store, activeGroupId,
                           hiddenTabIds, resp>>
       ELSE /\ hiddenTabIds' = {}
            /\ activeGroupId' = NULL
            /\ stActiveGroupId' = NULL
            /\ SetH(h, [hs[h] EXCEPT !.pc = "badge"])
            /\ UNCHANGED <<provider, stSettings, stSessions, resp, lastCmd>>
    /\ UNCHANGED <<since, nextSessionId, envCount, currentDuplicates, background, suspension>>

----------------------------------------------------------------------------
(* initialize: runs at module load, on onStartup and on onInstalled *)

StartInitialize(h) ==
    /\ hs[h].kind = "idle"
    /\ SetH(h, [IdleH EXCEPT !.kind = "initialize", !.pc = "assign",
                             !.data = stActiveGroupId])
    /\ resp' = [resp EXCEPT ![h] = NoResp]
    /\ UNCHANGED <<provider, store, activeGroupId, hiddenTabIds, lastCmd,
                   since, nextSessionId, envCount, currentDuplicates, background, suspension>>

\* activeGroupId = data.activeGroupId; then await storage.getSettings()
InitializeAssign(h) ==
    /\ hs[h].kind = "initialize" /\ hs[h].pc = "assign"
    /\ activeGroupId' = hs[h].data
    /\ SetH(h, [hs[h] EXCEPT !.pc = "rest", !.settings = stSettings])
    /\ UNCHANGED <<provider, store, hiddenTabIds, resp, lastCmd, since,
                   nextSessionId, envCount, currentDuplicates, background, suspension>>

\* a settings key that is absent reads as undefined, which is falsy and
\* not greater than 0
Enabled(settings, key) == key \in DOMAIN settings /\ settings[key]

Positive(settings, key) == key \in DOMAIN settings /\ settings[key] > 0

\* setupAutoSaveAlarm if autoSaveEnabled, alarms.create('idle-check') if
\* suspensionTimeout > 0; nothing is cleared
AlarmsAfterInitialize(set, settings) ==
    set \cup (IF Enabled(settings, "autoSaveEnabled") THEN {"auto-save"} ELSE {})
        \cup (IF Positive(settings, "suspensionTimeout") THEN {"idle-check"}
              ELSE {})

\* the alarms and the badge, after which the promise settles
InitializeRest(h) ==
    /\ hs[h].kind = "initialize" /\ hs[h].pc = "rest"
    /\ alarms' = AlarmsAfterInitialize(alarms, hs[h].settings)
    /\ SetH(h, IdleH)
    /\ since' = "none"
    /\ UNCHANGED <<provider, store, activeGroupId, hiddenTabIds, resp, lastCmd,
                   nextSessionId, envCount, currentDuplicates, timeouts,
                   stGroups, suspension>>

----------------------------------------------------------------------------
(* GET_GROUPS: getTabGroups, the group query answered after the tab query *)

StartGetGroups(h) ==
    /\ hs[h].kind = "idle"
    /\ SetH(h, [IdleH EXCEPT !.kind = "getGroups", !.pc = "snap", !.qt = tabs])
    /\ resp' = [resp EXCEPT ![h] = NoResp]
    /\ UNCHANGED <<provider, store, activeGroupId, hiddenTabIds, lastCmd,
                   since, nextSessionId, envCount, currentDuplicates, background, suspension>>

GetGroupsSnapshot(h) ==
    /\ hs[h].kind = "getGroups" /\ hs[h].pc = "snap"
    /\ SetH(h, [hs[h] EXCEPT !.pc = "done", !.qg = chromeGroups,
                 !.groups = GetTabGroups(hs[h].qt, chromeGroups),
                 !.data = activeGroupId])
    /\ resp' = [resp EXCEPT ![h] = OkResp]
    /\ UNCHANGED <<provider, store, activeGroupId, hiddenTabIds, lastCmd,
                   since, nextSessionId, envCount, currentDuplicates, background, suspension>>

----------------------------------------------------------------------------
(* SAVE_SESSION: saveSession and storage.saveSession *)

\* counts the groups, not their tabs
SumTabs_CountGroups(groups) == Len(groups)

RECURSIVE SumTabs(_)
SumTabs(groups) ==
    IF Len(groups) = 0 THEN 0
    ELSE Len(Head(groups).tabs) + SumTabs(Tail(groups))

\* sessions.length = maxSessions when the list is longer
TrimSessions(sessions, maxSessions) ==
    IF Len(sessions) > maxSessions THEN SubSeq(sessions, 1, maxSessions)
    ELSE sessions

\* pushes the new session at the end of the list
SavedList_Push(sessions, session, settings) ==
    TrimSessions(Append(sessions, session), settings.maxSessions)

\* sessions.unshift(session), then the trim
SavedList(sessions, session, settings) ==
    TrimSessions(<<session>> \o sessions, settings.maxSessions)

SessionNames == {"work", "home"}

StartSave(h, name) ==
    /\ hs[h].kind = "idle"
    /\ nextSessionId <= MaxSaves
    /\ SetH(h, [IdleH EXCEPT !.kind = "save", !.pc = "snap", !.arg = name,
                             !.qt = tabs])
    /\ resp' = [resp EXCEPT ![h] = NoResp]
    /\ UNCHANGED <<provider, store, activeGroupId, hiddenTabIds, lastCmd,
                   since, nextSessionId, envCount, currentDuplicates, background, suspension>>

\* the session is built; storage.saveSession awaits getSessions
SaveSnapshot(h) ==
    /\ hs[h].kind = "save" /\ hs[h].pc = "snap"
    /\ LET groups == GetTabGroups(hs[h].qt, chromeGroups)
       IN  SetH(h, [hs[h] EXCEPT
                !.pc = "getSettings", !.qg = chromeGroups, !.groups = groups,
                !.session = [id |-> nextSessionId, name |-> hs[h].arg,
                             groups |-> groups, createdAt |-> nextSessionId,
                             tabCount |-> SumTabs(groups)],
                !.sessions = stSessions])
    /\ nextSessionId' = nextSessionId + 1
    /\ UNCHANGED <<provider, store, activeGroupId, hiddenTabIds, resp, lastCmd,
                   since, envCount, currentDuplicates, background, suspension>>

SaveGetSettings(h) ==
    /\ hs[h].kind = "save" /\ hs[h].pc = "getSettings"
    /\ SetH(h, [hs[h] EXCEPT !.pc = "set", !.settings = stSettings])
    /\ UNCHANGED <<provider, store, activeGroupId, hiddenTabIds, resp, lastCmd,
                   since, nextSessionId, envCount, currentDuplicates, background, suspension>>

SaveSet(h) ==
    /\ hs[h].kind = "save" /\ hs[h].pc = "set"
    /\ stSessions' = SavedList(hs[h].sessions, hs[h].session, hs[h].settings)
    /\ SetH(h, [hs[h] EXCEPT !.pc = "respond"])
    /\ UNCHANGED <<provider, stActiveGroupId, stSettings, activeGroupId,
                   hiddenTabIds, resp, lastCmd, since, nextSessionId, envCount, currentDuplicates, background, suspension>>

SaveRespond(h) ==
    /\ hs[h].kind = "save" /\ hs[h].pc = "respond"
    /\ SetH(h, [hs[h] EXCEPT !.pc = "done"])
    /\ resp' = [resp EXCEPT ![h] = OkResp]
    /\ UNCHANGED <<provider, store, activeGroupId, hiddenTabIds, lastCmd,
                   since, nextSessionId, envCount, currentDuplicates, background, suspension>>

----------------------------------------------------------------------------
(* RESTORE_SESSION: restoreSession *)

\* falls back to the head of the list
FindSession_OrHead(sessions, sid) ==
    LET idx == {i \in 1..Len(sessions) : sessions[i].id = sid}
    IN  IF idx = {} THEN Min(1, Len(sessions))
        ELSE CHOOSE i \in idx : \A j \in idx : i <= j

FindSession(sessions, sid) ==
    LET idx == {i \in 1..Len(sessions) : sessions[i].id = sid}
    IN  IF idx = {} THEN 0 ELSE CHOOSE i \in idx : \A j \in idx : i <= j

ActiveTabId(ts) ==
    LET idx == {i \in 1..Len(ts) : ts[i].active}
    IN  IF idx = {} THEN 0 ELSE ts[CHOOSE i \in idx : \A j \in idx : i <= j].id

ROp(op, id, url, title, color) ==
    [op |-> op, id |-> id, url |-> url, title |-> title, color |-> color]

\* closes the active tab as well
CloseOps_All(allTabs, cur) ==
    [i \in 1..Len(allTabs) |-> ROp("remove", allTabs[i].id, "", "", "")]

\* chrome.tabs.remove for every tab but the current one
CloseOps(allTabs, cur) ==
    LET others == SelectSeq(allTabs, LAMBDA t : t.id # cur)
    IN  [i \in 1..Len(others) |-> ROp("remove", others[i].id, "", "", "")]

\* leaves the tabs of a real session group ungrouped
GroupCreateOps_NoGroup(group) ==
    [n \in 1..Len(group.tabs) |-> ROp("create", 0, group.tabs[n].url, "", "")]

\* the creates of one session group, then group and update for a real one;
\* id 1 marks a create whose tab id is pushed to tabIds
GroupCreateOps(group) ==
    IF group.id = UNGROUPED
    THEN [n \in 1..Len(group.tabs) |->
             ROp("create", 0, group.tabs[n].url, "", "")]
    ELSE [n \in 1..Len(group.tabs) |->
             ROp("create", 1, group.tabs[n].url, "", "")]
           \o (IF Len(group.tabs) > 0
               THEN <<ROp("group", 0, "", "", ""),
                      ROp("retitle", 0, "", group.name, group.color)>>
               ELSE <<>>)

CreateOps(session) ==
    Flatten([i \in 1..Len(session.groups) |-> GroupCreateOps(session.groups[i])])

\* the color the provider gives a group made by chrome.tabs.group
NewGroupColor == "grey"

StartRestore(h, sid, append) ==
    /\ hs[h].kind = "idle"
    /\ nextTabId <= MaxTabId + 1
    /\ SetH(h, [IdleH EXCEPT
            !.kind = "restore", !.pc = "find", !.sid = sid, !.append = append,
            !.sessions = stSessions,
            !.win = [tabs |-> tabs, chromeGroups |-> chromeGroups,
                     sessions |-> stSessions, nextTabId |-> nextTabId,
                     nextGroupId |-> nextGroupId,
                     fresh |-> /\ since = "saved"
                               /\ Len(stSessions) > 0
                               /\ stSessions[1].id = sid]])
    /\ resp' = [resp EXCEPT ![h] = NoResp]
    /\ UNCHANGED <<provider, store, activeGroupId, hiddenTabIds, lastCmd,
                   since, nextSessionId, envCount, currentDuplicates, background, suspension>>

\* sessions.find; the throw, or the first query of the close step
RestoreFind(h) ==
    /\ hs[h].kind = "restore" /\ hs[h].pc = "find"
    /\ LET i == FindSession(hs[h].sessions, hs[h].sid)
       IN  IF i = 0
           THEN Fail(h, "Session not found")
           ELSE /\ SetH(h, [hs[h] EXCEPT
                      !.session = hs[h].sessions[i],
                      !.pc = IF hs[h].append THEN "ops" ELSE "queryAll",
                      !.ops = IF hs[h].append THEN CreateOps(hs[h].sessions[i])
                              ELSE <<>>,
                      !.k = 0, !.ok = TRUE,
                      !.cur = IF hs[h].append THEN 0 ELSE ActiveTabId(tabs)])
                /\ UNCHANGED resp
    /\ UNCHANGED <<provider, store, activeGroupId, hiddenTabIds, lastCmd,
                   since, nextSessionId, envCount, currentDuplicates, background, suspension>>

\* the query of all tabs is answered
RestoreQueryAll(h) ==
    /\ hs[h].kind = "restore" /\ hs[h].pc = "queryAll"
    /\ SetH(h, [hs[h] EXCEPT
            !.pc = "ops", !.qt = tabs,
            !.ops = CloseOps(tabs, hs[h].cur) \o CreateOps(hs[h].session)])
    /\ UNCHANGED <<provider, store, activeGroupId, hiddenTabIds, resp, lastCmd,
                   since, nextSessionId, envCount, currentDuplicates, background, suspension>>

RemoveTab(ts, tabId) ==
    LET rest == SelectSeq(ts, LAMBDA t : t.id # tabId)
    IN  IF ActiveTabId(ts) = tabId /\ Len(rest) > 0
        THEN SetActive(rest, rest[Len(rest)].id)
        ELSE rest

\* chrome.tabs.create({url}): a new ungrouped tab at the end, active
CreateTab(ts, tabId, url) ==
    Append([i \in 1..Len(ts) |-> [ts[i] EXCEPT !.active = FALSE]],
           [id |-> tabId, groupId |-> TAB_GROUP_ID_NONE, pinned |-> FALSE,
            active |-> TRUE, url |-> url])

GroupTabs(ts, ids, gid) ==
    [i \in 1..Len(ts) |->
        IF ts[i].id \in Range(ids)
        THEN [ts[i] EXCEPT !.groupId = gid, !.pinned = FALSE]
        ELSE ts[i]]

SetTitleColor(cgs, gid, title, color) ==
    [i \in 1..Len(cgs) |->
        IF cgs[i].id = gid
        THEN [cgs[i] EXCEPT !.title = title, !.color = color]
        ELSE cgs[i]]

ROpOk(h, op) ==
    IF op.op = "remove" THEN TabExists(tabs, op.id)
    ELSE IF op.op = "group"
    THEN \A n \in 1..Len(hs[h].made) : TabExists(tabs, hs[h].made[n])
    ELSE IF op.op = "retitle" THEN GroupExists(chromeGroups, hs[h].gid)
    ELSE TRUE

\* the next awaited provider call of the close loop and the create loops
RestoreIssue(h) ==
    LET op == hs[h].ops[hs[h].k + 1]
        ok == ROpOk(h, op)
    IN  /\ SetH(h, [hs[h] EXCEPT
                !.k = @ + 1, !.ok = ok,
                !.made = IF op.op = "create" /\ op.id = 1
                         THEN Append(@, nextTabId)
                         ELSE IF op.op = "retitle" THEN <<>> ELSE @,
                !.gid = IF op.op = "group" /\ ok THEN nextGroupId ELSE @])
        /\ tabs' =
             IF ~ok THEN tabs
             ELSE IF op.op = "remove" THEN RemoveTab(tabs, op.id)
             ELSE IF op.op = "create" THEN CreateTab(tabs, nextTabId, op.url)
             ELSE IF op.op = "group"
             THEN GroupTabs(tabs, hs[h].made, nextGroupId)
             ELSE tabs
        /\ chromeGroups' =
             IF ~ok THEN chromeGroups
             ELSE IF op.op = "remove"
             THEN RemoveEmptyGroups(RemoveTab(tabs, op.id), chromeGroups)
             ELSE IF op.op = "group"
             THEN Append(RemoveEmptyGroups(
                             GroupTabs(tabs, hs[h].made, nextGroupId),
                             chromeGroups),
                         [id |-> nextGroupId, title |-> "",
                          color |-> NewGroupColor, collapsed |-> FALSE])
             ELSE IF op.op = "retitle"
             THEN SetTitleColor(chromeGroups, hs[h].gid, op.title, op.color)
             ELSE chromeGroups
        /\ nextTabId' = IF op.op = "create" THEN nextTabId + 1 ELSE nextTabId
        /\ nextGroupId' =
             IF op.op = "group" /\ ok THEN nextGroupId + 1 ELSE nextGroupId
        /\ lastCmd' = [op |-> op.op, id |-> op.id]

RestoreStep(h) ==
    /\ hs[h].kind = "restore" /\ hs[h].pc = "ops"
    /\ IF ~hs[h].ok
       THEN /\ Fail(h, "No such tab or group")
            /\ UNCHANGED <<provider, lastCmd>>
       ELSE IF hs[h].k < Len(hs[h].ops)
       THEN /\ RestoreIssue(h)
            /\ UNCHANGED resp
       ELSE /\ SetH(h, [hs[h] EXCEPT !.pc = "done"])
            /\ resp' = [resp EXCEPT ![h] = OkResp]
            /\ UNCHANGED <<provider, lastCmd>>
    /\ UNCHANGED <<store, activeGroupId, hiddenTabIds, since, nextSessionId,
                   envCount, currentDuplicates, background, suspension>>

----------------------------------------------------------------------------
(* DELETE_SESSION: storage.deleteSession *)

\* drops the head of the list whatever its id
WithoutSession_DropHead(sessions, sid) ==
    IF Len(sessions) = 0 THEN sessions ELSE Tail(sessions)

\* sessions.filter((s) => s.id !== sessionId)
WithoutSession(sessions, sid) ==
    SelectSeq(sessions, LAMBDA x : x.id # sid)

StartDelete(h, sid) ==
    /\ hs[h].kind = "idle"
    /\ SetH(h, [IdleH EXCEPT
            !.kind = "delete", !.pc = "set", !.sid = sid,
            !.sessions = stSessions,
            !.win = [NoWin EXCEPT !.sessions = stSessions]])
    /\ resp' = [resp EXCEPT ![h] = NoResp]
    /\ UNCHANGED <<provider, store, activeGroupId, hiddenTabIds, lastCmd,
                   since, nextSessionId, envCount, currentDuplicates, background, suspension>>

DeleteSet(h) ==
    /\ hs[h].kind = "delete" /\ hs[h].pc = "set"
    /\ stSessions' = WithoutSession(hs[h].sessions, hs[h].sid)
    /\ SetH(h, [hs[h] EXCEPT !.pc = "respond"])
    /\ UNCHANGED <<provider, stActiveGroupId, stSettings, activeGroupId,
                   hiddenTabIds, resp, lastCmd, since, nextSessionId, envCount, currentDuplicates, background, suspension>>

DeleteRespond(h) ==
    /\ hs[h].kind = "delete" /\ hs[h].pc = "respond"
    /\ SetH(h, [hs[h] EXCEPT !.pc = "done"])
    /\ resp' = [resp EXCEPT ![h] = OkResp]
    /\ UNCHANGED <<provider, store, activeGroupId, hiddenTabIds, lastCmd,
                   since, nextSessionId, envCount, currentDuplicates, background, suspension>>

----------------------------------------------------------------------------
(* Suspension Engine: URLs are scheme, host and path, host and path being  *)
(* sequences of pieces so that startsWith, includes and replace are        *)
(* computed on them                                                        *)

SUSPENDED_PAGE == "suspended/suspended.html"

MsPerMinute == 60000

notSuspension ==
    <<chromeGroups, nextTabId, nextGroupId, store, activeGroupId,
      hiddenTabIds, lastCmd, since, nextSessionId>>

\* String.prototype.includes on sequences of pieces
Includes(str, sub) ==
    \E i \in 1..(Len(str) - Len(sub) + 1) :
        SubSeq(str, i, i + Len(sub) - 1) = sub

\* url.hostname.replace(/^www\./, '')
Domain(url) ==
    IF Len(url.host) > 0 /\ url.host[1] = "www." THEN Tail(url.host)
    ELSE url.host

\* encodeURIComponent
Encode(x) == <<"enc", x>>

TitleOf(tab) == IF tab.title = "" THEN "Untitled" ELSE tab.title

\* chrome.runtime.getURL of the placeholder with its three parameters
SuspendedUrl(tab) ==
    [scheme |-> "chrome-extension://", host |-> <<"self">>,
     path |-> <<SUSPENDED_PAGE>>,
     query |-> <<Encode(tab.url), Encode(TitleOf(tab)),
                 Encode(tab.favIconUrl)>>]

\* takes the extension's own pages, the placeholder among them, for pages
\* to suspend
SkipsEarly_OwnPages(tab) ==
    \/ tab.pinned
    \/ tab.active
    \/ tab.url = NoUrl
    \/ tab.url.scheme = "chrome://"

\* suspends pinned tabs as well
SkipsEarly_IgnorePinned(tab) ==
    \/ tab.active
    \/ tab.url = NoUrl
    \/ tab.url.scheme = "chrome://"
    \/ tab.url.scheme = "chrome-extension://"
    \/ Includes(tab.url.path, <<SUSPENDED_PAGE>>)

\* the first test of suspendTab
SkipsEarly(tab) ==
    \/ tab.pinned
    \/ tab.active
    \/ tab.url = NoUrl
    \/ tab.url.scheme = "chrome://"
    \/ tab.url.scheme = "chrome-extension://"
    \/ Includes(tab.url.path, <<SUSPENDED_PAGE>>)

Whitelisted(tab, settings) ==
    /\ Len(settings.suspensionWhitelist) > 0
    /\ \E n \in 1..Len(settings.suspensionWhitelist) :
         Includes(Domain(tab.url), settings.suspensionWhitelist[n])

MapIndex(map, tabId) ==
    LET idx == {i \in 1..Len(map) : map[i].tabId = tabId}
    IN  IF idx = {} THEN 0 ELSE CHOOSE i \in idx : TRUE

\* Map.prototype.set keeps the position of a key it already holds
MapSet(map, info) ==
    IF MapIndex(map, info.tabId) = 0 THEN Append(map, info)
    ELSE [map EXCEPT ![MapIndex(map, info.tabId)] = info]

MapDelete(map, tabId) == SelectSeq(map, LAMBDA e : e.tabId # tabId)

TabById(ts, tabId) ==
    LET idx == {i \in 1..Len(ts) : ts[i].id = tabId}
    IN  IF idx = {} THEN NoTab ELSE ts[CHOOSE i \in idx : TRUE]

\* chrome.tabs.update(tabId, {url})
SetUrl(ts, tabId, url) ==
    [i \in 1..Len(ts) |->
        IF ts[i].id = tabId THEN [ts[i] EXCEPT !.url = url] ELSE ts[i]]

WasState == [tabs |-> tabs, suspended |-> suspendedTabs,
             tl |-> tabLastActiveTime]

\* SUSPEND_TAB: suspendTab awaits chrome.tabs.get
StartSuspend(h, tabId) ==
    /\ hs[h].kind = "idle"
    /\ SetH(h, [IdleH EXCEPT
            !.kind = "suspend", !.pc = "check", !.cur = tabId,
            !.tab = TabById(tabs, tabId), !.ok = TabExists(tabs, tabId),
            !.was = WasState])
    /\ resp' = [resp EXCEPT ![h] = NoResp]
    /\ UNCHANGED <<tabs, notSuspension, envCount, currentDuplicates, background, suspension>>

\* suspendTab returns: to the dispatcher, or into the loop of checkIdleTabs
SuspendReturn(h) ==
    IF hs[h].kind = "suspend"
    THEN /\ SetH(h, [hs[h] EXCEPT !.pc = "done"])
         /\ resp' = [resp EXCEPT ![h] = OkResp]
    ELSE /\ SetH(h, [hs[h] EXCEPT !.pc = "loop"])
         /\ UNCHANGED resp

SuspendCheck(h) ==
    /\ hs[h].kind \in {"suspend", "sweep"} /\ hs[h].pc = "check"
    /\ IF ~hs[h].ok THEN Fail(h, "No tab with id")
       ELSE IF SkipsEarly(hs[h].tab) THEN SuspendReturn(h)
       ELSE /\ SetH(h, [hs[h] EXCEPT !.pc = "whitelist",
                                     !.tabSettings = stSettings])
            /\ UNCHANGED resp
    /\ UNCHANGED <<tabs, notSuspension, envCount, currentDuplicates, background, suspension>>

\* the whitelist test, suspendedTabs.set, and the awaited navigation
SuspendWhitelist(h) ==
    /\ hs[h].kind \in {"suspend", "sweep"} /\ hs[h].pc = "whitelist"
    /\ IF Whitelisted(hs[h].tab, hs[h].tabSettings)
       THEN /\ SuspendReturn(h)
            /\ UNCHANGED <<tabs, suspendedTabs>>
       ELSE /\ suspendedTabs' =
                 MapSet(suspendedTabs,
                        [tabId |-> hs[h].cur, originalUrl |-> hs[h].tab.url,
                         title |-> TitleOf(hs[h].tab),
                         favicon |-> hs[h].tab.favIconUrl])
            /\ tabs' = SetUrl(tabs, hs[h].cur, SuspendedUrl(hs[h].tab))
            /\ SetH(h, [hs[h] EXCEPT !.pc = "updated",
                                     !.ok = TabExists(tabs, hs[h].cur)])
            /\ UNCHANGED resp
    /\ UNCHANGED <<notSuspension, envCount, currentDuplicates, background, tabLastActiveTime, clock,
                   removedPending>>

SuspendFinish(h) ==
    /\ hs[h].kind \in {"suspend", "sweep"} /\ hs[h].pc = "updated"
    /\ IF ~hs[h].ok THEN Fail(h, "No tab with id") ELSE SuspendReturn(h)
    /\ UNCHANGED <<tabs, notSuspension, envCount, currentDuplicates, background, suspension>>

----------------------------------------------------------------------------
(* UNSUSPEND_TAB: unsuspendTab *)

\* navigates to the encoded form of the URL
UnsuspendUrl_Encoded(info) == Encode(info.originalUrl)

UnsuspendUrl(info) == info.originalUrl

StartUnsuspend(h, tabId) ==
    /\ hs[h].kind = "idle"
    /\ LET i == MapIndex(suspendedTabs, tabId)
       IN  IF i = 0
           THEN /\ SetH(h, [IdleH EXCEPT !.kind = "unsuspend",
                                        !.pc = "respond", !.cur = tabId,
                                        !.was = WasState])
                /\ UNCHANGED tabs
           ELSE /\ SetH(h, [IdleH EXCEPT
                       !.kind = "unsuspend", !.pc = "updated", !.cur = tabId,
                       !.info = suspendedTabs[i],
                       !.ok = TabExists(tabs, tabId), !.was = WasState])
                /\ tabs' = SetUrl(tabs, tabId, UnsuspendUrl(suspendedTabs[i]))
    /\ resp' = [resp EXCEPT ![h] = NoResp]
    /\ UNCHANGED <<notSuspension, envCount, currentDuplicates, background, suspension>>

UnsuspendFinish(h) ==
    /\ hs[h].kind = "unsuspend" /\ hs[h].pc \in {"updated", "respond"}
    /\ IF hs[h].pc = "updated" /\ ~hs[h].ok
       THEN /\ Fail(h, "No tab with id")
            /\ UNCHANGED suspendedTabs
       ELSE /\ suspendedTabs' =
                 IF hs[h].pc = "updated"
                 THEN MapDelete(suspendedTabs, hs[h].cur)
                 ELSE suspendedTabs
            /\ SetH(h, [hs[h] EXCEPT !.pc = "done"])
            /\ resp' = [resp EXCEPT ![h] = OkResp]
    /\ UNCHANGED <<tabs, notSuspension, envCount, currentDuplicates, background, tabLastActiveTime, clock,
                   removedPending>>

----------------------------------------------------------------------------
(* GET_SUSPENDED_TABS: getSuspendedTabs iterating the map *)

\* reports the record whatever chrome.tabs.get answered
ListPush_Always(result, info, ok) ==
    Append(result, [tabId |-> info.tabId, title |-> info.title,
                    url |-> info.originalUrl])

ListPush(result, info, ok) ==
    IF ok
    THEN Append(result, [tabId |-> info.tabId, title |-> info.title,
                         url |-> info.originalUrl])
    ELSE result

\* the entry the iterator yields next: the first one not yet visited
NextEntry(map, visited) ==
    LET idx == {i \in 1..Len(map) : map[i].tabId \notin visited}
    IN  IF idx = {} THEN 0 ELSE CHOOSE i \in idx : \A j \in idx : i <= j

StartList(h) ==
    /\ hs[h].kind = "idle"
    /\ LET i == NextEntry(suspendedTabs, {})
       IN  IF i = 0
           THEN SetH(h, [IdleH EXCEPT !.kind = "list", !.pc = "respond",
                                     !.was = WasState])
           ELSE SetH(h, [IdleH EXCEPT
                    !.kind = "list", !.pc = "get",
                    !.cur = suspendedTabs[i].tabId, !.info = suspendedTabs[i],
                    !.ok = TabExists(tabs, suspendedTabs[i].tabId),
                    !.was = WasState])
    /\ resp' = [resp EXCEPT ![h] = NoResp]
    /\ UNCHANGED <<tabs, notSuspension, envCount, currentDuplicates, background, suspension>>

ListStep(h) ==
    /\ hs[h].kind = "list" /\ hs[h].pc \in {"get", "respond"}
    /\ IF hs[h].pc = "respond"
       THEN /\ SetH(h, [hs[h] EXCEPT !.pc = "done"])
            /\ resp' = [resp EXCEPT ![h] = OkResp]
            /\ UNCHANGED suspendedTabs
       ELSE LET map == IF hs[h].ok THEN suspendedTabs
                       ELSE MapDelete(suspendedTabs, hs[h].cur)
                visited == hs[h].visited \cup {hs[h].cur}
                result == ListPush(hs[h].result, hs[h].info, hs[h].ok)
                i == NextEntry(map, visited)
            IN  /\ suspendedTabs' = map
                /\ IF i = 0
                   THEN /\ SetH(h, [hs[h] EXCEPT !.pc = "done",
                                       !.result = result, !.visited = visited])
                        /\ resp' = [resp EXCEPT ![h] = OkResp]
                   ELSE /\ SetH(h, [hs[h] EXCEPT
                               !.result = result, !.visited = visited,
                               !.cur = map[i].tabId, !.info = map[i],
                               !.ok = TabExists(tabs, map[i].tabId)])
                        /\ UNCHANGED resp
    /\ UNCHANGED <<tabs, notSuspension, envCount, currentDuplicates, background, tabLastActiveTime, clock,
                   removedPending>>

----------------------------------------------------------------------------
(* The idle-check alarm: checkIdleTabs *)

TimeoutMs(settings) == settings.suspensionTimeout * MsPerMinute

NowMs(t) == t * MsPerMinute

\* suspends a tab it sees for the first time
RECURSIVE SweepScan_NoSeed(_, _, _, _, _)
SweepScan_NoSeed(qt, k, tl, now, timeoutMs) ==
    IF k > Len(qt) THEN [k |-> k, tl |-> tl]
    ELSE IF NowMs(now) - NowMs(tl[qt[k].id]) > timeoutMs
    THEN [k |-> k, tl |-> tl]
    ELSE SweepScan_NoSeed(qt, k + 1, tl, now, timeoutMs)

\* the for loop from tab k on, up to the next await: the index of the tab
\* to suspend, or Len + 1, and the map with the tabs seeded on the way
RECURSIVE SweepScan(_, _, _, _, _)
SweepScan(qt, k, tl, now, timeoutMs) ==
    IF k > Len(qt) THEN [k |-> k, tl |-> tl]
    ELSE IF tl[qt[k].id] = 0
    THEN SweepScan(qt, k + 1, [tl EXCEPT ![qt[k].id] = now], now, timeoutMs)
    ELSE IF NowMs(now) - NowMs(tl[qt[k].id]) > timeoutMs
    THEN [k |-> k, tl |-> tl]
    ELSE SweepScan(qt, k + 1, tl, now, timeoutMs)

StartSweep(h) ==
    /\ hs[h].kind = "idle"
    /\ SetH(h, [IdleH EXCEPT !.kind = "sweep", !.pc = "settings",
                             !.settings = stSettings, !.was = WasState])
    /\ resp' = [resp EXCEPT ![h] = NoResp]
    /\ UNCHANGED <<tabs, notSuspension, envCount, currentDuplicates, background, suspension>>

\* the early return, or Date.now() and the awaited tab query
SweepSettings(h) ==
    /\ hs[h].kind = "sweep" /\ hs[h].pc = "settings"
    /\ IF hs[h].settings.suspensionTimeout <= 0
       THEN /\ SetH(h, [hs[h] EXCEPT !.pc = "done"])
            /\ resp' = [resp EXCEPT ![h] = OkResp]
       ELSE /\ SetH(h, [hs[h] EXCEPT !.pc = "loop", !.now = clock,
                                     !.qt = tabs, !.k = 0])
            /\ UNCHANGED resp
    /\ UNCHANGED <<tabs, notSuspension, envCount, currentDuplicates, background, suspension>>

SweepLoop(h) ==
    /\ hs[h].kind = "sweep" /\ hs[h].pc = "loop"
    /\ LET r == SweepScan(hs[h].qt, hs[h].k + 1, tabLastActiveTime,
                          hs[h].now, TimeoutMs(hs[h].settings))
       IN  /\ tabLastActiveTime' = r.tl
           /\ IF r.k > Len(hs[h].qt)
              THEN /\ SetH(h, [hs[h] EXCEPT !.pc = "done", !.k = r.k])
                   /\ resp' = [resp EXCEPT ![h] = OkResp]
              ELSE /\ SetH(h, [hs[h] EXCEPT
                          !.pc = "check", !.k = r.k,
                          !.cur = hs[h].qt[r.k].id,
                          !.last = r.tl[hs[h].qt[r.k].id],
                          !.tab = TabById(tabs, hs[h].qt[r.k].id),
                          !.ok = TabExists(tabs, hs[h].qt[r.k].id)])
                   /\ UNCHANGED resp
    /\ UNCHANGED <<tabs, notSuspension, envCount, currentDuplicates, background, suspendedTabs, clock,
                   removedPending>>

----------------------------------------------------------------------------
(* UPDATE_SETTINGS: storage.updateSettings and the alarms *)

\* { ...current, ...updates }
Merge(current, updates) ==
    [key \in DOMAIN current \cup DOMAIN updates |->
        IF key \in DOMAIN updates THEN updates[key] ELSE current[key]]

StartUpdateSettings(h, updates) ==
    /\ hs[h].kind = "idle"
    /\ SetH(h, [IdleH EXCEPT !.kind = "update", !.pc = "set",
                             !.updates = updates, !.settings = stSettings,
                             !.was = WasState])
    /\ resp' = [resp EXCEPT ![h] = NoResp]
    /\ UNCHANGED <<tabs, notSuspension, envCount, currentDuplicates, background, suspension>>

UpdateSet(h) ==
    /\ hs[h].kind = "update" /\ hs[h].pc = "set"
    /\ stSettings' = Merge(hs[h].settings, hs[h].updates)
    /\ SetH(h, [hs[h] EXCEPT !.pc = "alarm",
                             !.settings = Merge(hs[h].settings, hs[h].updates)])
    /\ UNCHANGED <<provider, stActiveGroupId, stSessions, activeGroupId,
                   hiddenTabIds, resp, lastCmd, since, nextSessionId, envCount, currentDuplicates, background,
                   suspension>>

\* the alarm is touched only when the update carries its key
AlarmAfterUpdate(set, name, touched, on) ==
    IF ~touched THEN set
    ELSE IF on THEN set \cup {name} ELSE set \ {name}

\* updates.autoSaveInterval || updates.autoSaveEnabled !== undefined
TouchesAutoSave(updates) ==
    \/ "autoSaveEnabled" \in DOMAIN updates
    \/ Positive(updates, "autoSaveInterval")

AlarmsAfterUpdate(set, updates, settings) ==
    AlarmAfterUpdate(
        AlarmAfterUpdate(set, "auto-save", TouchesAutoSave(updates),
                         Enabled(settings, "autoSaveEnabled")),
        "idle-check", "suspensionTimeout" \in DOMAIN updates,
        Positive(settings, "suspensionTimeout"))

\* the auto-save and idle-check alarms, then the response
UpdateAlarm(h) ==
    /\ hs[h].kind = "update" /\ hs[h].pc = "alarm"
    /\ alarms' = AlarmsAfterUpdate(alarms, hs[h].updates, hs[h].settings)
    /\ SetH(h, [hs[h] EXCEPT !.pc = "done"])
    /\ resp' = [resp EXCEPT ![h] = OkResp]
    /\ UNCHANGED <<tabs, notSuspension, envCount, currentDuplicates, timeouts,
                   stGroups, suspension>>

----------------------------------------------------------------------------
(* Tab events the suspension engine listens to, and the clock *)

\* the user closes a tab; onRemoved starts and awaits updateBadge
UserCloseTab(i) ==
    /\ Len(tabs) > 1
    /\ envCount < MaxEnvChanges
    /\ envCount' = envCount + 1
    /\ LET rest == RemoveAt(tabs, i)
       IN  tabs' = IF tabs[i].active
                   THEN SetActive(rest, rest[Min(i, Len(rest))].id)
                   ELSE rest
    /\ removedPending' = removedPending \cup {tabs[i].id}
    /\ UNCHANGED <<notSuspension, hs, resp, suspendedTabs, tabLastActiveTime,
                   clock, currentDuplicates, background>>

\* leaves the earlier timeout pending and sets another
DebouncedCall_NoClear(pending) == pending + 1

\* debounce: clearTimeout(timeoutId) if one is set, then setTimeout
DebouncedCall(pending) == 1

\* onRemoved after updateBadge: debouncedSave() and the two deletes
OnRemoved(tabId) ==
    /\ tabId \in removedPending
    /\ removedPending' = removedPending \ {tabId}
    /\ timeouts' = DebouncedCall(timeouts)
    /\ suspendedTabs' = MapDelete(suspendedTabs, tabId)
    /\ tabLastActiveTime' = [tabLastActiveTime EXCEPT ![tabId] = 0]
    /\ UNCHANGED <<tabs, notSuspension, hs, resp, envCount, currentDuplicates,
                   alarms, stGroups, clock>>

\* the user switches to a tab; onActivated calls updateTabActivity
UserActivate(i) ==
    /\ ~tabs[i].active
    /\ tabs' = SetActive(tabs, tabs[i].id)
    /\ tabLastActiveTime' = [tabLastActiveTime EXCEPT ![tabs[i].id] = clock]
    /\ UNCHANGED <<notSuspension, hs, resp, envCount, currentDuplicates, background, suspendedTabs, clock,
                   removedPending>>

Tick ==
    /\ clock < MaxClock
    /\ clock' = clock + 1
    /\ UNCHANGED <<tabs, notSuspension, hs, resp, envCount, currentDuplicates, background, suspendedTabs,
                   tabLastActiveTime, removedPending>>

----------------------------------------------------------------------------
(* The options page importing a backup: storage.importData *)

ImportDocs ==
    {[activeGroupId |-> v] : v \in {NULL, GroupIdOf(1)}}

\* setMultiple(data) replaces the keys the document holds
Import(doc) ==
    /\ stActiveGroupId' =
         IF "activeGroupId" \in DOMAIN doc THEN doc.activeGroupId
         ELSE stActiveGroupId
    /\ stSettings' =
         IF "settings" \in DOMAIN doc THEN doc.settings ELSE stSettings
    /\ stSessions' =
         IF "sessions" \in DOMAIN doc THEN doc.sessions ELSE stSessions
    /\ UNCHANGED <<provider, activeGroupId, hiddenTabIds, hs, resp, lastCmd,
                   since, nextSessionId, envCount, currentDuplicates, background, suspension>>

----------------------------------------------------------------------------
(* The provider changing under the user's hands *)

EnvFrame ==
    /\ envCount < MaxEnvChanges
    /\ envCount' = envCount + 1
    /\ since' = "none"
    /\ UNCHANGED <<store, activeGroupId, hiddenTabIds, hs, resp, lastCmd,
                   nextSessionId, suspension, currentDuplicates, background>>

\* the user closes a tab; the window keeps an active tab
EnvCloseTab(i) ==
    /\ Len(tabs) > 1
    /\ LET rest == RemoveAt(tabs, i)
           next == rest[Min(i, Len(rest))].id
       IN  /\ tabs' = IF tabs[i].active THEN SetActive(rest, next) ELSE rest
           /\ chromeGroups' = RemoveEmptyGroups(rest, chromeGroups)
    /\ UNCHANGED <<nextTabId, nextGroupId>>
    /\ EnvFrame

\* the user opens a tab: ungrouped, unpinned, active
EnvNewTab ==
    /\ tabs' = Append([i \in 1..Len(tabs) |-> [tabs[i] EXCEPT !.active = FALSE]],
                      [id |-> nextTabId, groupId |-> TAB_GROUP_ID_NONE,
                       pinned |-> FALSE, active |-> TRUE,
                       url |-> "u" \o ToString(nextTabId)])
    /\ nextTabId' = nextTabId + 1
    /\ UNCHANGED <<chromeGroups, nextGroupId>>
    /\ EnvFrame

\* the user drags a tab into another existing group
EnvMoveTab(i, gid) ==
    /\ ~tabs[i].pinned
    /\ GroupExists(chromeGroups, gid) /\ tabs[i].groupId # gid
    /\ LET ts == [tabs EXCEPT ![i].groupId = gid]
       IN  /\ tabs' = ts
           /\ chromeGroups' = RemoveEmptyGroups(ts, chromeGroups)
    /\ UNCHANGED <<nextTabId, nextGroupId>>
    /\ EnvFrame

\* the user puts a tab into a new group
EnvNewGroup(i) ==
    /\ ~tabs[i].pinned
    /\ LET ts == [tabs EXCEPT ![i].groupId = nextGroupId]
       IN  /\ tabs' = ts
           /\ chromeGroups' =
                Append(RemoveEmptyGroups(ts, chromeGroups),
                       [id |-> nextGroupId, title |-> "", color |-> "grey",
                        collapsed |-> FALSE])
    /\ nextGroupId' = nextGroupId + 1
    /\ UNCHANGED nextTabId
    /\ EnvFrame

\* the user removes a tab from its group
EnvUngroupTab(i) ==
    /\ IsGrouped(tabs[i])
    /\ LET ts == [tabs EXCEPT ![i].groupId = TAB_GROUP_ID_NONE]
       IN  /\ tabs' = ts
           /\ chromeGroups' = RemoveEmptyGroups(ts, chromeGroups)
    /\ UNCHANGED <<nextTabId, nextGroupId>>
    /\ EnvFrame

\* the user collapses or expands a group in the tab strip
EnvToggleCollapsed(j) ==
    /\ chromeGroups' = [chromeGroups EXCEPT ![j].collapsed = ~@]
    /\ UNCHANGED <<tabs, nextTabId, nextGroupId>>
    /\ EnvFrame

EnvChange ==
    \/ \E i \in 1..Len(tabs) : EnvCloseTab(i)
    \/ EnvNewTab
    \/ \E i \in 1..Len(tabs) : \E gid \in 1..MaxGroupId : EnvMoveTab(i, gid)
    \/ \E i \in 1..Len(tabs) : EnvNewGroup(i)
    \/ \E i \in 1..Len(tabs) : EnvUngroupTab(i)
    \/ \E j \in 1..Len(chromeGroups) : EnvToggleCollapsed(j)

----------------------------------------------------------------------------
(* Initial states: the window the service worker wakes up in, the store a  *)
(* previous run left, and initialize() already called at module load       *)

InitTabs(ga, pin) ==
    [i \in 1..MaxTabs |->
        [id |-> i, groupId |-> ga[i], pinned |-> (i \in pin),
         active |-> (i = 1), url |-> "u" \o ToString(i)]]

InitChromeGroups(ts) ==
    RemoveEmptyGroups(ts,
        [g \in 1..InitGroups |->
            [id |-> g, title |-> "G" \o ToString(g), color |-> "blue",
             collapsed |-> FALSE]])

Layouts ==
    {InitTabs(ga, pin) :
        ga \in [1..MaxTabs -> {TAB_GROUP_ID_NONE} \cup (1..InitGroups)],
        pin \in SUBSET (1..MaxTabs)}

\* a pinned tab is never in a group
ValidLayout(ts) == \A i \in 1..Len(ts) : ts[i].pinned => ~IsGrouped(ts[i])

InitWorker ==
    /\ activeGroupId = NULL
    /\ hiddenTabIds = {}
    /\ suspendedTabs = <<>>
    /\ tabLastActiveTime = [t \in 1..MaxTabId |-> 0]
    /\ clock = 1
    /\ removedPending = {}
    /\ hs = [h \in Handlers |->
               IF h = 1
               THEN [IdleH EXCEPT !.kind = "initialize", !.pc = "assign",
                                  !.data = stActiveGroupId]
               ELSE IdleH]
    /\ resp = [h \in Handlers |-> NoResp]
    /\ lastCmd = NoCmd
    /\ since = "none"
    /\ nextSessionId = 1
    /\ envCount = 0
    /\ currentDuplicates = <<>>
    /\ alarms = {}
    /\ timeouts = 0
    /\ stGroups = <<>>

InitProvider ==
    /\ tabs \in {ts \in Layouts : ValidLayout(ts)}
    /\ chromeGroups = InitChromeGroups(tabs)
    /\ nextTabId = MaxTabs + 1
    /\ nextGroupId = InitGroups + 1

Init ==
    /\ InitProvider
    /\ stActiveGroupId \in {NULL, GroupIdOf(1)}
    /\ stSettings \in {[showUngroupedTabs |-> b, maxSessions |-> MaxSessionsBound] :
                         b \in BOOLEAN}
    /\ stSessions = <<>>
    /\ InitWorker

----------------------------------------------------------------------------
(* The focus controller, one handler at a time: a command is delivered and *)
(* the provider changes only while no handler is in flight                 *)

\* the ids a command can name: those on show in the popup, and one that no
\* snapshot holds
GroupIds ==
    {GroupIdOf(chromeGroups[j].id) : j \in 1..Len(chromeGroups)}
      \cup {UNGROUPED, GroupIdOf(0)}

Next ==
    \/ AllIdle /\ \E g \in GroupIds : StartFocus(1, g)
    \/ FocusSnapshot(1)
    \/ FocusStep(1)
    \/ AllIdle /\ StartUnfocus(1)
    \/ UnfocusSnapshot(1)
    \/ UnfocusStep(1)
    \/ Badge(1)
    \/ Return(1)
    \/ AllIdle /\ StartInitialize(1)
    \/ InitializeAssign(1)
    \/ InitializeRest(1)
    \/ AllIdle /\ EnvChange

Spec == Init /\ [][Next]_vars

----------------------------------------------------------------------------
(* What the provider holds, stated without the snapshot builder *)

TabGroupId(tab) == IF IsGrouped(tab) THEN GroupIdOf(tab.groupId) ELSE UNGROUPED

IsReal(g) == \E j \in 1..Len(chromeGroups) : GroupIdOf(chromeGroups[j].id) = g

Expanded(g) ==
    \E j \in 1..Len(chromeGroups) :
        GroupIdOf(chromeGroups[j].id) = g /\ ~chromeGroups[j].collapsed

ProviderGroupIds ==
    {GroupIdOf(chromeGroups[j].id) : j \in 1..Len(chromeGroups)}
      \cup {TabGroupId(tabs[i]) : i \in 1..Len(tabs)}

TabIdxOf(g) == {i \in 1..Len(tabs) : TabGroupId(tabs[i]) = g}

ActiveTabIds == {tabs[i].id : i \in {j \in 1..Len(tabs) : tabs[j].active}}

ExpectedHidden(g) ==
    {tabs[i].id : i \in {j \in 1..Len(tabs) :
        /\ ~tabs[j].pinned
        /\ TabGroupId(tabs[j]) # g
        /\ ~(TabGroupId(tabs[j]) = UNGROUPED /\ stSettings.showUngroupedTabs)}}

PinnedTabIds == {tabs[i].id : i \in {j \in 1..Len(tabs) : tabs[j].pinned}}

FocusDone(h) ==
    hs[h].kind = "focus" /\ hs[h].pc = "done" /\ resp[h].status = "ok"

UnfocusDone(h) ==
    hs[h].kind = "unfocus" /\ hs[h].pc = "done" /\ resp[h].status = "ok"

----------------------------------------------------------------------------
(* Focus Controller *)

\* C1: when focus(g) has completed without a provider failure and with no
\* other handler interleaved, every real group other than g is collapsed, g
\* (if real) is expanded, the first tab of g is the active tab, and
\* hiddenTabIds is exactly the set of non-pinned tabs of the other groups,
\* the ungrouped bucket left out when showUngroupedTabs is set.
C1_FocusPostcondition ==
    \A h \in Handlers : FocusDone(h) =>
        LET g == hs[h].arg
        IN  /\ \A j \in 1..Len(chromeGroups) :
                 chromeGroups[j].collapsed = (GroupIdOf(chromeGroups[j].id) # g)
            /\ TabIdxOf(g) # {}
            /\ ActiveTabIds =
                 {tabs[CHOOSE i \in TabIdxOf(g) : \A j \in TabIdxOf(g) : i <= j].id}
            /\ hiddenTabIds = ExpectedHidden(g)

C1_Witness ==
    /\ FocusDone(1)
    /\ IsReal(hs[1].arg)
    /\ \E g \in ProviderGroupIds : g # hs[1].arg /\ IsReal(g)
    /\ \E i \in 1..Len(tabs) : ~IsGrouped(tabs[i]) /\ ~tabs[i].pinned
    /\ hiddenTabIds # {}
    /\ ~tabs[1].active

\* C2: focus never issues a deactivate command for a pinned tab and never
\* puts a pinned tab's id into hiddenTabIds.
C2_PinnedNeverHidden ==
    /\ hiddenTabIds \cap PinnedTabIds = {}
    /\ lastCmd.op = "deactivate" => lastCmd.id \notin PinnedTabIds

C2_Witness ==
    /\ FocusDone(1)
    /\ ~stSettings.showUngroupedTabs
    /\ hs[1].arg # UNGROUPED
    /\ \E i \in 1..Len(tabs) : ~IsGrouped(tabs[i]) /\ tabs[i].pinned
    /\ \E i \in 1..Len(tabs) : ~IsGrouped(tabs[i]) /\ tabs[i].id \in hiddenTabIds

\* C3: focus(g) with g absent from the fresh snapshot is answered with
\* success=false 'Group not found', and activeGroupId (in memory and in the
\* store), hiddenTabIds and every group's collapsed flag are as they were
\* when the command arrived.
C3_FocusNotFound ==
    \A h \in Handlers :
        (hs[h].kind = "focus" /\ hs[h].pc = "done"
           /\ hs[h].arg \notin ProviderGroupIds) =>
            /\ resp[h] = ErrResp("Group not found")
            /\ activeGroupId = hs[h].pre.activeGroupId
            /\ stActiveGroupId = hs[h].pre.stActiveGroupId
            /\ hiddenTabIds = hs[h].pre.hidden
            /\ CollapsedSet(chromeGroups) = hs[h].pre.collapsed

C3_Witness ==
    /\ hs[1].kind = "focus" /\ hs[1].pc = "done"
    /\ hs[1].arg \notin ProviderGroupIds
    /\ resp[1].status = "error"
    /\ activeGroupId # NULL
    /\ hiddenTabIds # {}
    /\ CollapsedSet(chromeGroups) # {}

\* C4: whatever the user did to the window between focus(g) and unfocus(),
\* when unfocus() has completed every real group of the provider is
\* expanded, hiddenTabIds is empty and activeGroupId is none.
C4_UnfocusRestores ==
    \A h \in Handlers : UnfocusDone(h) =>
        /\ CollapsedSet(chromeGroups) = {}
        /\ hiddenTabIds = {}
        /\ activeGroupId = NULL

\* unfocus after a focus on a real group that the user has closed since,
\* while a group that focus collapsed is still there
C4_Witness ==
    /\ UnfocusDone(1)
    /\ hs[1].pre.hidden # {}
    /\ hs[1].pre.activeGroupId \notin ProviderGroupIds \cup {UNGROUPED, NULL}
    /\ \E j \in 1..Len(chromeGroups) : chromeGroups[j].id \in hs[1].pre.collapsed

\* C5: focus(g2) run right after a completed focus(g1), g1 # g2 both real:
\* in no state of the run are g1 and g2 both expanded, and at completion g2
\* is expanded and g1 collapsed.
C5_NeverBothExpanded ==
    \A h \in Handlers :
        (/\ hs[h].kind = "focus" /\ hs[h].pre.clean
         /\ hs[h].pre.activeGroupId # hs[h].arg
         /\ IsReal(hs[h].pre.activeGroupId) /\ IsReal(hs[h].arg)) =>
            /\ ~(Expanded(hs[h].pre.activeGroupId) /\ Expanded(hs[h].arg))
            /\ FocusDone(h) =>
                 Expanded(hs[h].arg) /\ ~Expanded(hs[h].pre.activeGroupId)

C5_Witness ==
    /\ FocusDone(1) /\ hs[1].pre.clean
    /\ hs[1].pre.activeGroupId # hs[1].arg
    /\ IsReal(hs[1].pre.activeGroupId) /\ IsReal(hs[1].arg)

\* C6: focusing the active group again, nothing having happened in between,
\* succeeds and leaves activeGroupId, hiddenTabIds and every collapsed flag
\* as the first focus left them.
C6_FocusIdempotent ==
    \A h \in Handlers :
        (hs[h].kind = "focus" /\ hs[h].pre.clean
           /\ hs[h].pre.activeGroupId = hs[h].arg) =>
            /\ resp[h].status # "error"
            /\ hs[h].pc = "done" =>
                 /\ activeGroupId = hs[h].arg
                 /\ hiddenTabIds = hs[h].pre.hidden
                 /\ CollapsedSet(chromeGroups) = hs[h].pre.collapsed

C6_Witness ==
    /\ FocusDone(1) /\ hs[1].pre.clean
    /\ hs[1].pre.activeGroupId = hs[1].arg
    /\ hiddenTabIds # {}
    /\ CollapsedSet(chromeGroups) # {}

----------------------------------------------------------------------------
(* Handlers overlapping at their awaits: the commands run in slot 1, one   *)
(* at a time; initialize may run again in slot 2 at any moment, and the    *)
(* options page may import a backup at any moment; the window is left      *)
(* alone                                                                   *)

NextOverlap ==
    \/ hs[1].kind = "idle" /\ \E g \in GroupIds : StartFocus(1, g)
    \/ FocusSnapshot(1)
    \/ FocusStep(1)
    \/ hs[1].kind = "idle" /\ StartUnfocus(1)
    \/ UnfocusSnapshot(1)
    \/ UnfocusStep(1)
    \/ Badge(1)
    \/ \E h \in Handlers : Return(h)
    \/ StartInitialize(2)
    \/ \E h \in Handlers : InitializeAssign(h)
    \/ \E h \in Handlers : InitializeRest(h)
    \/ \E doc \in ImportDocs : Import(doc)

SpecOverlap == Init /\ [][NextOverlap]_vars

\* C7: whenever no handler is in flight, the activeGroupId of the store is
\* the activeGroupId in memory, after any sequence of focus, unfocus,
\* initialize and data-import operations.
C7_PersistedMirrorsMemory ==
    AllIdle => stActiveGroupId = activeGroupId

----------------------------------------------------------------------------
(* The snapshot builder with the window changing between its two queries   *)

NextSnapshot ==
    \/ StartGetGroups(1)
    \/ GetGroupsSnapshot(1)
    \/ Return(1)
    \/ InitializeAssign(1)
    \/ InitializeRest(1)
    \/ EnvChange

SpecSnapshot == Init /\ [][NextSnapshot]_vars

GetGroupsDone(h) == hs[h].kind = "getGroups" /\ hs[h].pc = "done"

GroupsHolding(groups, tabId) ==
    {i \in 1..Len(groups) :
        \E n \in 1..Len(groups[i].tabs) : groups[i].tabs[n].id = tabId}

\* C8: every tab the tab query returned appears in exactly one group of the
\* snapshot, the group of its provider group id or the 'ungrouped' bucket,
\* also when the group query saw the provider at a later moment.
C8_EveryTabInOneGroup ==
    \A h \in Handlers : GetGroupsDone(h) =>
        \A n \in 1..Len(hs[h].qt) :
            LET holding == GroupsHolding(hs[h].groups, hs[h].qt[n].id)
            IN  /\ Cardinality(holding) = 1
                /\ \A i \in holding :
                     hs[h].groups[i].id = TabGroupId(hs[h].qt[n])

\* C9: the snapshot holds the synthetic group (id 'ungrouped',
\* chromeGroupId -1, grey, 'Ungrouped') iff some tab of the tab query has no
\* provider group; it then occurs once, as the last element, behind the real
\* groups in the order the group query gave.
C9_SyntheticBucket ==
    \A h \in Handlers : GetGroupsDone(h) =>
        LET groups == hs[h].groups
            synth == {i \in 1..Len(groups) : groups[i].id = UNGROUPED}
            loose == \E n \in 1..Len(hs[h].qt) : ~IsGrouped(hs[h].qt[n])
        IN  /\ (synth # {}) <=> loose
            /\ synth \subseteq {Len(groups)}
            /\ \A i \in synth :
                 /\ groups[i].chromeGroupId = 0 - 1
                 /\ groups[i].color = "grey"
                 /\ groups[i].name = "Ungrouped"
            /\ Len(groups) = Len(hs[h].qg) + Cardinality(synth)
            /\ \A i \in 1..Len(hs[h].qg) :
                 groups[i].chromeGroupId = hs[h].qg[i].id

C9_Witness ==
    /\ GetGroupsDone(1)
    /\ Len(hs[1].groups) = 3
    /\ hs[1].groups[3].id = UNGROUPED

----------------------------------------------------------------------------
(* The session ring: SAVE_SESSION commands one after the other under a     *)
(* maxSessions setting that stays put                                      *)

InitSession ==
    /\ InitProvider
    /\ stActiveGroupId = NULL
    /\ stSettings \in {[showUngroupedTabs |-> TRUE, maxSessions |-> n] :
                         n \in 1..MaxSessionsBound}
    /\ stSessions = <<>>
    /\ InitWorker

NextSession ==
    \/ AllIdle /\ \E name \in SessionNames : StartSave(1, name)
    \/ SaveSnapshot(1)
    \/ SaveGetSettings(1)
    \/ SaveSet(1)
    \/ SaveRespond(1)
    \/ Return(1)
    \/ InitializeAssign(1)
    \/ InitializeRest(1)

SpecSession == InitSession /\ [][NextSession]_vars

SaveDone(h) == hs[h].kind = "save" /\ hs[h].pc = "done"

\* C10: with maxSessions = N >= 1, after each save the stored list has
\* min(k, N) entries, k the number of sessions saved so far, and they are
\* the most recent ones, the latest first.
C10_SessionRing ==
    (AllIdle \/ SaveDone(1)) =>
        LET k == nextSessionId - 1
            N == stSettings.maxSessions
        IN  /\ Len(stSessions) = Min(k, N)
            /\ Len(stSessions) <= N
            /\ \A i \in 1..Len(stSessions) : stSessions[i].id = k - i + 1

C10_Witness ==
    /\ SaveDone(1)
    /\ stSettings.maxSessions >= 2
    /\ nextSessionId - 1 = stSettings.maxSessions + 1
    /\ Len(stSessions) = stSettings.maxSessions
    /\ stSessions[1].id = nextSessionId - 1

----------------------------------------------------------------------------
(* The session manager: save, restore and delete one after the other; the  *)
(* window changes by what restore does to it                               *)

SessionIds == 1..MaxSaves

NextRestore ==
    \/ AllIdle /\ StartSave(1, "work")
    \/ SaveSnapshot(1)
    \/ SaveGetSettings(1)
    \/ SaveSet(1)
    \/ SaveRespond(1)
    \/ AllIdle /\ \E sid \in SessionIds, append \in BOOLEAN :
                     StartRestore(1, sid, append)
    \/ RestoreFind(1)
    \/ RestoreQueryAll(1)
    \/ RestoreStep(1)
    \/ AllIdle /\ \E sid \in SessionIds : StartDelete(1, sid)
    \/ DeleteSet(1)
    \/ DeleteRespond(1)
    \/ Return(1)
    \/ InitializeAssign(1)
    \/ InitializeRest(1)

SpecRestore == InitSession /\ [][NextRestore]_vars

RestoreDone(h) == hs[h].kind = "restore" /\ hs[h].pc = "done"

RestoreOk(h) == RestoreDone(h) /\ resp[h].status = "ok"

DeleteDone(h) == hs[h].kind = "delete" /\ hs[h].pc = "done"

SessionIdsOf(sessions) == {sessions[i].id : i \in 1..Len(sessions)}

SessionUrls(session) ==
    Flatten([i \in 1..Len(session.groups) |->
                [n \in 1..Len(session.groups[i].tabs) |->
                    session.groups[i].tabs[n].url]])

NamesColors(groups) ==
    {<<groups[i].name, groups[i].color>> : i \in 1..Len(groups)}

CountUrl(urls, u) == Cardinality({n \in 1..Len(urls) : urls[n] = u})

\* C11: save(name) directly followed by a successful restore(id,
\* append=false) of that session leaves the window with the group names and
\* colors, the total tab count and the tab URLs of save time.
C11_SaveRestoreRoundTrip ==
    (RestoreOk(1) /\ ~hs[1].append /\ hs[1].win.fresh) =>
        LET sess == hs[1].session
            urls == [n \in 1..Len(tabs) |-> tabs[n].url]
        IN  /\ NamesColors(GetTabGroups(tabs, chromeGroups))
                 = NamesColors(sess.groups)
            /\ Len(tabs) = sess.tabCount
            /\ \A u \in Range(urls) \cup Range(SessionUrls(sess)) :
                 CountUrl(urls, u) = CountUrl(SessionUrls(sess), u)

\* C12: restore with append=false closes every tab of the window but the
\* active one, with append=true closes none; then every session tab is
\* created, the tabs of a real session group in one new provider group with
\* the recorded name and color, those of the synthetic bucket ungrouped.
C12_RestoreEffect ==
    RestoreOk(1) =>
        LET w == hs[1].win
            sess == hs[1].session
            old == {w.tabs[i].id : i \in 1..Len(w.tabs)}
            kept == {tabs[i].id : i \in {j \in 1..Len(tabs) :
                                            tabs[j].id < w.nextTabId}}
            new == SelectSeq(tabs, LAMBDA t : t.id >= w.nextTabId)
            before(i) == Len(SessionUrls([groups |-> SubSeq(sess.groups, 1, i - 1)]))
            slots(i) == (before(i) + 1)..(before(i) + Len(sess.groups[i].tabs))
            fresh == {j \in 1..Len(chromeGroups) :
                         chromeGroups[j].id >= w.nextGroupId}
        IN  /\ kept = IF hs[1].append THEN old
                      ELSE old \cap {ActiveTabId(w.tabs)}
            /\ [n \in 1..Len(new) |-> new[n].url] = SessionUrls(sess)
            /\ \A i \in 1..Len(sess.groups) :
                 IF sess.groups[i].id = UNGROUPED
                 THEN \A n \in slots(i) : ~IsGrouped(new[n])
                 ELSE \E j \in fresh :
                        /\ chromeGroups[j].title = sess.groups[i].name
                        /\ chromeGroups[j].color = sess.groups[i].color
                        /\ {n \in 1..Len(new) :
                               new[n].groupId = chromeGroups[j].id} = slots(i)
            /\ Cardinality(fresh) =
                 Cardinality({i \in 1..Len(sess.groups) :
                                 sess.groups[i].id # UNGROUPED})

C12_Witness ==
    /\ RestoreOk(1) /\ ~hs[1].append
    /\ Len(hs[1].win.tabs) >= 2
    /\ Len(hs[1].session.groups) >= 2
    /\ hs[1].session.groups[Len(hs[1].session.groups)].id = UNGROUPED

\* C13: save(name) puts at the head of the persisted list a session with
\* the given name, the snapshot taken by that save as its groups, and a
\* tabCount equal to the number of tabs in those groups.
C13_SaveStoresSnapshot ==
    SaveDone(1) =>
        /\ Len(stSessions) >= 1
        /\ stSessions[1].name = hs[1].arg
        /\ stSessions[1].groups = GetTabGroups(hs[1].qt, hs[1].qg)
        /\ stSessions[1].tabCount =
             Len(Flatten([i \in 1..Len(stSessions[1].groups) |->
                             stSessions[1].groups[i].tabs]))

C13_Witness ==
    /\ SaveDone(1)
    /\ hs[1].arg = "home"
    /\ Len(stSessions) = 2
    /\ Len(stSessions[1].groups) = 1
    /\ stSessions[1].tabCount = 2

\* C14: restore of a session id that is not in the persisted list, with
\* either append value, is answered success=false with 'Session not found';
\* no tab is closed, no tab or group created, the session list unchanged.
C14_RestoreNotFound ==
    (RestoreDone(1) /\ hs[1].sid \notin SessionIdsOf(hs[1].win.sessions)) =>
        /\ resp[1] = ErrResp("Session not found")
        /\ tabs = hs[1].win.tabs
        /\ chromeGroups = hs[1].win.chromeGroups
        /\ nextTabId = hs[1].win.nextTabId
        /\ nextGroupId = hs[1].win.nextGroupId
        /\ stSessions = hs[1].win.sessions

C14_Witness ==
    /\ RestoreDone(1)
    /\ hs[1].sid \notin SessionIdsOf(hs[1].win.sessions)
    /\ Len(hs[1].win.sessions) >= 1
    /\ Len(tabs) >= 2

\* C15: delete(sessionId) removes the session with that id and keeps every
\* other session, unmodified and in the same order; with no such session
\* the list is unchanged; the command succeeds either way.
C15_DeleteFrame ==
    DeleteDone(1) =>
        LET old == hs[1].win.sessions
            at == FindSession(old, hs[1].sid)
        IN  /\ resp[1] = OkResp
            /\ IF at = 0 THEN stSessions = old
               ELSE /\ Len(stSessions) = Len(old) - 1
                    /\ \A i \in 1..Len(stSessions) :
                         stSessions[i] = IF i < at THEN old[i] ELSE old[i + 1]

C15_Witness ==
    /\ DeleteDone(1)
    /\ Len(hs[1].win.sessions) = 2
    /\ hs[1].win.sessions[2].id = hs[1].sid
    /\ Len(stSessions) = 1

----------------------------------------------------------------------------
(* The suspension engine: windows of ungrouped tabs on pages of every kind *)
(* suspendTab tells apart                                                  *)

UrlPool ==
    {Url("https://", <<"www.", "a", ".com">>, <<"index">>),
     Url("https://", <<"b", ".com">>, <<"index">>),
     Url("https://", <<"b", ".com">>, <<SUSPENDED_PAGE>>),
     Url("chrome://", <<"settings">>, <<>>),
     NoUrl}

Whitelists == {<<>>, << <<"a">> >>, << <<"www.", "a", ".com">> >>}

SuspendTabs(u, pin, a) ==
    [i \in 1..MaxTabs |->
        [id |-> i, url |-> u[i],
         title |-> IF i = 1 THEN "" ELSE "T" \o ToString(i),
         favIconUrl |-> IF i = 1 THEN "" ELSE "icon",
         pinned |-> (i \in pin), active |-> (i = a),
         groupId |-> TAB_GROUP_ID_NONE]]

SuspendSettings(timeout, whitelist) ==
    [showUngroupedTabs |-> TRUE, maxSessions |-> MaxSessionsBound,
     suspensionTimeout |-> timeout, suspensionWhitelist |-> whitelist]

InitSuspend ==
    /\ tabs \in {SuspendTabs(u, pin, 1) :
                    u \in [1..MaxTabs -> UrlPool], pin \in SUBSET (1..MaxTabs)}
    /\ chromeGroups = <<>>
    /\ nextTabId = MaxTabs + 1
    /\ nextGroupId = 1
    /\ stActiveGroupId = NULL
    /\ stSettings \in {SuspendSettings(0, wl) : wl \in Whitelists}
    /\ stSessions = <<>>
    /\ InitWorker

TabIds == 1..MaxTabId

NextSuspend ==
    \/ AllIdle /\ \E t \in TabIds : StartSuspend(1, t)
    \/ SuspendCheck(1)
    \/ SuspendWhitelist(1)
    \/ SuspendFinish(1)
    \/ AllIdle /\ \E t \in TabIds : StartUnsuspend(1, t)
    \/ UnsuspendFinish(1)
    \/ AllIdle /\ StartList(1)
    \/ ListStep(1)
    \/ Return(1)
    \/ InitializeAssign(1)
    \/ InitializeRest(1)
    \/ AllIdle /\ \E i \in 1..Len(tabs) : UserCloseTab(i)
    \/ AllIdle /\ \E t \in TabIds : OnRemoved(t)
    \/ AllIdle /\ \E i \in 1..Len(tabs) : UserActivate(i)

SpecSuspend == InitSuspend /\ [][NextSuspend]_vars

SuspendDone(h) == hs[h].kind = "suspend" /\ hs[h].pc = "done"

UnsuspendDone(h) == hs[h].kind = "unsuspend" /\ hs[h].pc = "done"

ListDone(h) == hs[h].kind = "list" /\ hs[h].pc = "done"

IsPlaceholder(url) ==
    /\ url.scheme = "chrome-extension://"
    /\ url.host = <<"self">>
    /\ url.path = <<SUSPENDED_PAGE>>

IsSystemPage(url) == url.scheme \in {"chrome://", "chrome-extension://"}

HostOnWhitelist(url, settings) ==
    \E n \in 1..Len(settings.suspensionWhitelist) :
        Includes(url.host, settings.suspensionWhitelist[n])

\* C16: suspend(tabId) leaves URL and records alone and succeeds when the
\* tab is pinned, active, on the placeholder, a system page, or its host
\* contains a whitelist entry; any other tab gets a record under tabId with
\* its URL and is navigated to the placeholder carrying that URL.
C16_SuspendEffect ==
    (SuspendDone(1) /\ hs[1].tab.id # 0) =>
        LET t == hs[1].tab
        IN  IF \/ t.pinned \/ t.active
               \/ IsPlaceholder(t.url) \/ IsSystemPage(t.url)
               \/ HostOnWhitelist(t.url, stSettings)
            THEN /\ tabs = hs[1].was.tabs
                 /\ suspendedTabs = hs[1].was.suspended
                 /\ resp[1] = OkResp
            ELSE /\ MapIndex(suspendedTabs, t.id) # 0
                 /\ suspendedTabs[MapIndex(suspendedTabs, t.id)].originalUrl
                      = t.url
                 /\ IsPlaceholder(TabById(tabs, t.id).url)
                 /\ TabById(tabs, t.id).url.query[1] = Encode(t.url)

\* C18: unsuspend(t) of a tab with a record navigates it to the URL the
\* record took from the tab when it was suspended and removes the record;
\* with no record for t, no tab and no record changes.
C18_UnsuspendRestores ==
    /\ (SuspendDone(1) /\ MapIndex(hs[1].was.suspended, hs[1].cur) = 0
                       /\ MapIndex(suspendedTabs, hs[1].cur) # 0) =>
          suspendedTabs[MapIndex(suspendedTabs, hs[1].cur)].originalUrl
            = TabById(hs[1].was.tabs, hs[1].cur).url
    /\ UnsuspendDone(1) =>
          LET i == MapIndex(hs[1].was.suspended, hs[1].cur)
          IN  IF i = 0
              THEN /\ tabs = hs[1].was.tabs
                   /\ suspendedTabs = hs[1].was.suspended
              ELSE TabExists(hs[1].was.tabs, hs[1].cur) =>
                     /\ TabById(tabs, hs[1].cur).url
                          = hs[1].was.suspended[i].originalUrl
                     /\ MapIndex(suspendedTabs, hs[1].cur) = 0
                     /\ resp[1] = OkResp

C18_Witness ==
    /\ UnsuspendDone(1)
    /\ MapIndex(hs[1].was.suspended, hs[1].cur) # 0
    /\ IsPlaceholder(TabById(hs[1].was.tabs, hs[1].cur).url)
    /\ TabById(tabs, hs[1].cur).url.host = <<"www.", "a", ".com">>

\* C20: listSuspended returns the records whose tab still exists in the
\* provider and deletes the records whose tab is gone; the records of
\* existing tabs stay as they were.
C20_ListPrunes ==
    ListDone(1) =>
        LET live == SelectSeq(hs[1].was.suspended,
                              LAMBDA e : TabExists(tabs, e.tabId))
        IN  /\ suspendedTabs = live
            /\ hs[1].result =
                 [i \in 1..Len(live) |->
                     [tabId |-> live[i].tabId, title |-> live[i].title,
                      url |-> live[i].originalUrl]]
            /\ resp[1] = OkResp

C20_Witness ==
    /\ ListDone(1)
    /\ Len(hs[1].result) >= 1
    /\ Len(hs[1].was.suspended) > Len(suspendedTabs)

----------------------------------------------------------------------------
(* The idle sweep: the alarm, the clock, the user switching tabs at any    *)
(* moment and changing the timeout                                         *)

SweepUrlPool == {Url("https://", <<"b", ".com">>, <<"index">>)}

Timeouts == {0, 1}

InitSweep ==
    /\ tabs \in {SuspendTabs(u, pin, 1) :
                    u \in [1..MaxTabs -> SweepUrlPool],
                    pin \in SUBSET (1..MaxTabs)}
    /\ chromeGroups = <<>>
    /\ nextTabId = MaxTabs + 1
    /\ nextGroupId = 1
    /\ stActiveGroupId = NULL
    /\ stSettings \in {SuspendSettings(t, <<>>) : t \in Timeouts}
    /\ stSessions = <<>>
    /\ InitWorker

NextSweep ==
    \/ AllIdle /\ StartSweep(1)
    \/ SweepSettings(1)
    \/ SweepLoop(1)
    \/ SuspendCheck(1)
    \/ SuspendWhitelist(1)
    \/ SuspendFinish(1)
    \/ AllIdle /\ \E t \in Timeouts :
                     StartUpdateSettings(1, [suspensionTimeout |-> t])
    \/ UpdateSet(1)
    \/ UpdateAlarm(1)
    \/ Return(1)
    \/ InitializeAssign(1)
    \/ InitializeRest(1)
    \/ \E i \in 1..Len(tabs) : UserActivate(i)
    \/ AllIdle /\ Tick

SpecSweep == InitSweep /\ [][NextSweep]_vars

InSuspendTab(h) ==
    hs[h].kind = "sweep" /\ hs[h].pc \in {"check", "whitelist", "updated"}

\* C17: the sweep never suspends a tab that chrome.tabs.get showed pinned or
\* active when the sweep examined it, whatever its idle time.
C17_SweepSparesPinnedActive ==
    /\ (hs[1].kind = "sweep" /\ hs[1].pc \in {"whitelist", "updated"}) =>
          ~hs[1].tab.pinned /\ ~hs[1].tab.active
    /\ \A i \in 1..Len(suspendedTabs) :
          ~TabById(tabs, suspendedTabs[i].tabId).pinned

C17_Witness ==
    /\ hs[1].kind = "sweep" /\ hs[1].pc = "loop"
    /\ hs[1].k >= 1
    /\ hs[1].tab.id = hs[1].qt[hs[1].k].id
    /\ hs[1].tab.pinned
    /\ hs[1].tab.url.scheme = "https://"

\* C19: a sweep only seeds the last-active time of a tab it sees for the
\* first time; it suspends a tab only if now minus its last-active time
\* exceeds the timeout; with timeout 0 it suspends nothing; setting the
\* timeout to 0 unsuspends nothing.
C19_SweepTiming ==
    /\ InSuspendTab(1) =>
          /\ hs[1].last # 0
          /\ hs[1].settings.suspensionTimeout > 0
          /\ (hs[1].now - hs[1].last) * MsPerMinute
                > hs[1].settings.suspensionTimeout * MsPerMinute
    /\ (hs[1].kind = "sweep" /\ hs[1].pc = "done") =>
          \A n \in 1..Len(hs[1].qt) :
             hs[1].was.tl[hs[1].qt[n].id] = 0 =>
                /\ tabLastActiveTime[hs[1].qt[n].id] >= hs[1].now
                /\ MapIndex(suspendedTabs, hs[1].qt[n].id)
                     = MapIndex(hs[1].was.suspended, hs[1].qt[n].id)
    /\ (hs[1].kind = "sweep" /\ hs[1].settings.suspensionTimeout = 0) =>
          /\ hs[1].pc \in {"settings", "done"}
          /\ suspendedTabs = hs[1].was.suspended
          /\ tabLastActiveTime = hs[1].was.tl \/ ~AllIdle
    /\ (hs[1].kind = "update" /\ hs[1].pc = "done"
          /\ hs[1].updates.suspensionTimeout = 0) =>
          /\ stSettings.suspensionTimeout = 0
          /\ suspendedTabs = hs[1].was.suspended
          /\ \A i \in 1..Len(tabs) : tabs[i].url = hs[1].was.tabs[i].url

C19_Witness ==
    /\ hs[1].kind = "sweep" /\ hs[1].pc = "updated"
    /\ hs[1].ok
    /\ hs[1].now - hs[1].last = 2
    /\ hs[1].settings.suspensionTimeout = 1

----------------------------------------------------------------------------
(* Colors: getColorFromDomainHash.  A string is the sequence of its UTF-16 *)
(* code units, and a 32-bit integer is the pair of its 16-bit halves, so   *)
(* that the arithmetic of the code is exact                                *)

Half == 2^16

\* ToInt32 of the integer hi * 2^16 + lo, the halves of any size and sign
Word(hi, lo) ==
    LET l == lo % Half
        carry == (lo - l) \div Half
    IN  [hi |-> (hi + carry) % Half, lo |-> l]

Zero == Word(0, 0)

\* hash << 5
Shl5(hash) == Word(hash.hi * 32, hash.lo * 32)

\* hash = ((hash << 5) - hash) + char; hash = hash & hash
HashStep(hash, char) ==
    LET s == Shl5(hash)
    IN  Word(s.hi - hash.hi, s.lo - hash.lo + char)

RECURSIVE HashOf(_, _)
HashOf(domain, hash) ==
    IF domain = <<>> THEN hash
    ELSE HashOf(Tail(domain), HashStep(hash, Head(domain)))

IsNegative(hash) == hash.hi >= Half \div 2

\* Math.abs(hash): a double, so that the upper half reaches 2^15 for -2^31
Abs(hash) ==
    IF ~IsNegative(hash) THEN hash
    ELSE IF hash.lo = 0 THEN [hi |-> Half - hash.hi, lo |-> 0]
    ELSE [hi |-> Half - 1 - hash.hi, lo |-> Half - hash.lo]

\* m % n for a non-negative m given by halves
Mod(m, n) == (((m.hi % n) * (Half % n)) + (m.lo % n)) % n

Colors == <<"blue", "red", "yellow", "green", "pink", "purple", "cyan">>

\* colors[index], undefined outside the array
ColorAt(index) ==
    IF index \in 0..(Len(Colors) - 1) THEN Colors[index + 1] ELSE "undefined"

\* hash % colors.length without Math.abs: the sign of the hash is kept
ColorIndex_NoAbs(hash) ==
    IF IsNegative(hash) THEN 0 - Mod(Abs(hash), Len(Colors))
    ELSE Mod(hash, Len(Colors))

ColorIndex(hash) == Mod(Abs(hash), Len(Colors))

getColorFromDomainHash(domain) == ColorAt(ColorIndex(HashOf(domain, Zero)))

getColorFromFaviconWithFallback(faviconUrl, domain) ==
    getColorFromDomainHash(domain)

\* the code units of the pieces host names are made of
Codes(piece) ==
    CASE piece = "www." -> <<119, 119, 119, 46>>
      [] piece = "a" -> <<97>>
      [] piece = "b" -> <<98>>
      [] piece = ".com" -> <<46, 99, 111, 109>>
      [] piece = "settings" -> <<115, 101, 116, 116, 105, 110, 103, 115>>
      [] piece = "self" -> <<115, 101, 108, 102>>
      [] OTHER -> <<>>

DomainCodes(domain) == Flatten([i \in 1..Len(domain) |-> Codes(domain[i])])

\* the pieces of a string, written out
RECURSIVE Join(_)
Join(pieces) ==
    IF pieces = <<>> THEN "" ELSE Head(pieces) \o Join(Tail(pieces))

----------------------------------------------------------------------------
(* Clustering by domain: autoGroupByDomain, groupTabsFromDomain and        *)
(* checkAutoGroupByDomain                                                  *)

\* chrome.tabs.query({currentWindow: true, groupId: TAB_GROUP_ID_NONE})
UngroupedQuery(ts) == SelectSeq(ts, LAMBDA t : t.groupId = TAB_GROUP_ID_NONE)

DomainIndex(map, domain) ==
    LET idx == {i \in 1..Len(map) : map[i].domain = domain}
    IN  IF idx = {} THEN 0 ELSE CHOOSE i \in idx : TRUE

\* the body of the counting loops: domainMap.get, push, favicon, set
DomainMapAdd(map, tab) ==
    LET domain == Domain(tab.url)
        i == DomainIndex(map, domain)
    IN  IF i = 0
        THEN Append(map, [domain |-> domain, tabIds |-> <<tab.id>>,
                          favicon |-> tab.favIconUrl])
        ELSE [map EXCEPT
                ![i].tabIds = Append(@, tab.id),
                ![i].favicon = IF @ = "" THEN tab.favIconUrl ELSE @]

RECURSIVE BuildDomainMap(_, _)
BuildDomainMap(ts, map) ==
    IF ts = <<>> THEN map
    ELSE BuildDomainMap(Tail(ts), DomainMapAdd(map, Head(ts)))

\* the counting loop of autoGroupByDomain skips tabs without a URL
AutoGroupMap(qt) ==
    BuildDomainMap(SelectSeq(qt, LAMBDA t : t.url # NoUrl), <<>>)

\* the counting loop of checkAutoGroupByDomain skips system pages as well
CheckMap(qt) ==
    BuildDomainMap(
        SelectSeq(qt, LAMBDA t :
            /\ t.url # NoUrl
            /\ t.url.scheme # "chrome://"
            /\ t.url.scheme # "chrome-extension://"),
        <<>>)

COp(op, ids, title, color) ==
    [op |-> op, ids |-> ids, title |-> title, color |-> color]

\* chrome.tabs.group({tabIds}), then chrome.tabGroups.update with title, color
EntryOps(domain, tabIds, favicon) ==
    <<COp("group", tabIds, "", ""),
      COp("retitle", <<>>, Join(domain),
          getColorFromFaviconWithFallback(favicon, DomainCodes(domain)))>>

\* makes a group of a single tab as well
AutoGroupOps_Singles(map) ==
    Flatten([i \in 1..Len(map) |->
        IF Len(map[i].tabIds) >= 1
        THEN EntryOps(map[i].domain, map[i].tabIds, map[i].favicon)
        ELSE <<>>])

\* the creating loop of autoGroupByDomain
AutoGroupOps(map) ==
    Flatten([i \in 1..Len(map) |->
        IF Len(map[i].tabIds) >= 2
        THEN EntryOps(map[i].domain, map[i].tabIds, map[i].favicon)
        ELSE <<>>])

FirstFavicon(ts) ==
    LET idx == {i \in 1..Len(ts) : ts[i].favIconUrl # ""}
    IN  IF idx = {} THEN ""
        ELSE ts[CHOOSE i \in idx : \A j \in idx : i <= j].favIconUrl

\* groupTabsFromDomain after its query; domain is the payload, a string
GroupDomainOps(qt, domain) ==
    LET match == SelectSeq(qt, LAMBDA t :
                     t.url # NoUrl /\ Join(Domain(t.url)) = domain)
        tabIds == [i \in 1..Len(match) |-> match[i].id]
    IN  IF Len(tabIds) < 2 THEN <<>>
        ELSE <<COp("group", tabIds, "", ""),
               COp("retitle", <<>>, domain,
                   getColorFromFaviconWithFallback(FirstFavicon(match),
                       DomainCodes(Domain(match[1].url))))>>

\* settings.autoGroupThreshold || 3; 0 stands for a setting never written
Threshold(settings) ==
    IF settings.autoGroupThreshold = 0 THEN 3 ELSE settings.autoGroupThreshold

\* targetDomain of checkAutoGroupByDomain
TargetDomain(tabUrl) == IF tabUrl = NoUrl THEN NULL ELSE Join(Domain(tabUrl))

\* the truth value of targetDomain: null and '' are falsy
Truthy(str) == str # NULL /\ str # ""

\* the loop of checkAutoGroupByDomain with its break
CheckOps(map, targetDomain, threshold) ==
    LET idx == {i \in 1..Len(map) :
                  /\ ~(Truthy(targetDomain) /\ Join(map[i].domain) # targetDomain)
                  /\ Len(map[i].tabIds) >= threshold}
    IN  IF idx = {} THEN <<>>
        ELSE LET i == CHOOSE n \in idx : \A j \in idx : n <= j
             IN  EntryOps(map[i].domain, map[i].tabIds, map[i].favicon)

\* chrome.tabs.ungroup(tabIds)
UngroupTabs(ts, ids) ==
    [i \in 1..Len(ts) |->
        IF ts[i].id \in Range(ids)
        THEN [ts[i] EXCEPT !.groupId = TAB_GROUP_ID_NONE]
        ELSE ts[i]]

SetTitle(cgs, gid, title) ==
    [i \in 1..Len(cgs) |->
        IF cgs[i].id = gid THEN [cgs[i] EXCEPT !.title = title] ELSE cgs[i]]

COpOk(h, op) ==
    IF op.op \in {"group", "ungroup"}
    THEN \A n \in 1..Len(op.ids) : TabExists(tabs, op.ids[n])
    ELSE IF op.op = "retitle" THEN GroupExists(chromeGroups, hs[h].gid)
    ELSE GroupExists(chromeGroups, op.ids[1])

\* the next awaited provider call of a group command
GroupIssue(h) ==
    LET op == hs[h].ops[hs[h].k + 1]
        ok == COpOk(h, op)
        grouped == GroupTabs(tabs, op.ids, nextGroupId)
        ungrouped == UngroupTabs(tabs, op.ids)
    IN  /\ SetH(h, [hs[h] EXCEPT
                !.k = @ + 1, !.ok = ok,
                !.gid = IF op.op = "group" /\ ok THEN nextGroupId ELSE @])
        /\ tabs' =
             IF ~ok THEN tabs
             ELSE IF op.op = "group" THEN grouped
             ELSE IF op.op = "ungroup" THEN ungrouped
             ELSE tabs
        /\ chromeGroups' =
             IF ~ok THEN chromeGroups
             ELSE IF op.op = "group"
             THEN Append(RemoveEmptyGroups(grouped, chromeGroups),
                         [id |-> nextGroupId, title |-> "",
                          color |-> NewGroupColor, collapsed |-> FALSE])
             ELSE IF op.op = "ungroup"
             THEN RemoveEmptyGroups(ungrouped, chromeGroups)
             ELSE IF op.op = "retitle"
             THEN SetTitleColor(chromeGroups, hs[h].gid, op.title, op.color)
             ELSE SetTitle(chromeGroups, op.ids[1], op.title)
        /\ nextGroupId' =
             IF op.op = "group" /\ ok THEN nextGroupId + 1 ELSE nextGroupId
        /\ lastCmd' = [op |-> op.op, id |-> 0]

WinState ==
    [tabs |-> tabs, chromeGroups |-> chromeGroups, sessions |-> stSessions,
     nextTabId |-> nextTabId, nextGroupId |-> nextGroupId, fresh |-> FALSE]

\* AUTO_GROUP_BY_DOMAIN: autoGroupByDomain awaits its query
StartAutoGroupAll(h) ==
    /\ hs[h].kind = "idle"
    /\ SetH(h, [IdleH EXCEPT !.kind = "autoGroupAll", !.pc = "map",
                             !.qt = UngroupedQuery(tabs), !.win = WinState])
    /\ resp' = [resp EXCEPT ![h] = NoResp]
    /\ UNCHANGED <<provider, store, activeGroupId, hiddenTabIds, lastCmd,
                   since, nextSessionId, envCount, currentDuplicates, background,
                   suspension>>

\* GROUP_TABS_BY_DOMAIN: groupTabsFromDomain awaits its query
StartGroupDomain(h, domain) ==
    /\ hs[h].kind = "idle"
    /\ SetH(h, [IdleH EXCEPT !.kind = "groupDomain", !.pc = "map",
                             !.arg = domain,
                             !.qt = UngroupedQuery(tabs), !.win = WinState])
    /\ resp' = [resp EXCEPT ![h] = NoResp]
    /\ UNCHANGED <<provider, store, activeGroupId, hiddenTabIds, lastCmd,
                   since, nextSessionId, envCount, currentDuplicates, background,
                   suspension>>

\* chrome.tabs.onUpdated with status 'complete' for an ungrouped tab that
\* has a URL: checkAutoGroupByDomain(tab.url) awaits storage.getSettings
OnUpdated(h, i) ==
    /\ hs[h].kind = "idle"
    /\ tabs[i].url # NoUrl
    /\ tabs[i].groupId = TAB_GROUP_ID_NONE
    /\ SetH(h, [IdleH EXCEPT !.kind = "checkAutoGroup", !.pc = "settings",
                             !.tab = tabs[i], !.settings = stSettings,
                             !.win = WinState])
    /\ resp' = [resp EXCEPT ![h] = NoResp]
    /\ UNCHANGED <<provider, store, activeGroupId, hiddenTabIds, lastCmd,
                   since, nextSessionId, envCount, currentDuplicates, background,
                   suspension>>

\* the test of autoGroupByDomain, and the query
CheckSettings(h) ==
    /\ hs[h].kind = "checkAutoGroup" /\ hs[h].pc = "settings"
    /\ SetH(h, IF ~hs[h].settings.autoGroupByDomain
               THEN [hs[h] EXCEPT !.pc = "done"]
               ELSE [hs[h] EXCEPT !.pc = "map", !.qt = UngroupedQuery(tabs)])
    /\ UNCHANGED <<provider, store, activeGroupId, hiddenTabIds, resp, lastCmd,
                   since, nextSessionId, envCount, currentDuplicates, background,
                   suspension>>

ClusterKinds == {"autoGroupAll", "groupDomain", "checkAutoGroup"}

EditKinds == {"rename", "deleteGroup"}

\* takes the first group of the snapshot when the id is not found
EditTarget_AnyGroup(groups, groupId) ==
    IF FindGroup(groups, groupId) # 0 THEN FindGroup(groups, groupId)
    ELSE IF Len(groups) > 0 THEN 1 ELSE 0

\* groups.find, and the test !group || group.chromeGroupId <= 0
EditTarget(groups, groupId) ==
    LET i == FindGroup(groups, groupId)
    IN  IF i = 0 THEN 0
        ELSE IF groups[i].chromeGroupId <= 0 THEN 0 ELSE i

\* the provider calls of renameGroup and of deleteGroup
EditOps(kind, group, newName) ==
    IF kind = "rename"
    THEN <<COp("rename", <<group.chromeGroupId>>, newName, "")>>
    ELSE IF Len(group.tabs) > 0
    THEN <<COp("ungroup", [i \in 1..Len(group.tabs) |-> group.tabs[i].id],
               "", "")>>
    ELSE <<>>

\* RENAME_GROUP: renameGroup awaits getTabGroups
StartRename(h, groupId, newName) ==
    /\ hs[h].kind = "idle"
    /\ SetH(h, [IdleH EXCEPT !.kind = "rename", !.pc = "snap",
                             !.arg = groupId, !.data = newName,
                             !.qt = tabs, !.win = WinState])
    /\ resp' = [resp EXCEPT ![h] = NoResp]
    /\ UNCHANGED <<provider, store, activeGroupId, hiddenTabIds, lastCmd,
                   since, nextSessionId, envCount, currentDuplicates, background,
                   suspension>>

\* DELETE_GROUP: deleteGroup awaits getTabGroups
StartDeleteGroup(h, groupId) ==
    /\ hs[h].kind = "idle"
    /\ SetH(h, [IdleH EXCEPT !.kind = "deleteGroup", !.pc = "snap",
                             !.arg = groupId,
                             !.qt = tabs, !.win = WinState])
    /\ resp' = [resp EXCEPT ![h] = NoResp]
    /\ UNCHANGED <<provider, store, activeGroupId, hiddenTabIds, lastCmd,
                   since, nextSessionId, envCount, currentDuplicates, background,
                   suspension>>

\* the snapshot is there: find, the throw, or the way to the provider call
EditSnapshot(h) ==
    /\ hs[h].kind \in EditKinds /\ hs[h].pc = "snap"
    /\ LET groups == GetTabGroups(hs[h].qt, chromeGroups)
           i == EditTarget(groups, hs[h].arg)
       IN  IF i = 0
           THEN Fail(h, IF hs[h].kind = "rename"
                        THEN "Group not found or cannot be renamed"
                        ELSE "Group not found or cannot be deleted")
           ELSE /\ SetH(h, [hs[h] EXCEPT
                      !.pc = "ops", !.k = 0, !.ok = TRUE,
                      !.qg = chromeGroups, !.groups = groups,
                      !.ops = EditOps(hs[h].kind, groups[i], hs[h].data)])
                /\ UNCHANGED resp
    /\ UNCHANGED <<provider, store, activeGroupId, hiddenTabIds, lastCmd,
                   since, nextSessionId, envCount, currentDuplicates, background,
                   suspension>>

\* the code between the query and the first provider command
ClusterMap(h) ==
    /\ hs[h].kind \in ClusterKinds /\ hs[h].pc = "map"
    /\ SetH(h, [hs[h] EXCEPT
            !.pc = "ops", !.k = 0, !.ok = TRUE,
            !.map = IF hs[h].kind = "autoGroupAll"
                    THEN AutoGroupMap(hs[h].qt)
                    ELSE IF hs[h].kind = "checkAutoGroup"
                    THEN CheckMap(hs[h].qt) ELSE <<>>,
            !.ops = IF hs[h].kind = "autoGroupAll"
                    THEN AutoGroupOps(AutoGroupMap(hs[h].qt))
                    ELSE IF hs[h].kind = "checkAutoGroup"
                    THEN CheckOps(CheckMap(hs[h].qt),
                                  TargetDomain(hs[h].tab.url),
                                  Threshold(hs[h].settings))
                    ELSE GroupDomainOps(hs[h].qt, hs[h].arg)])
    /\ UNCHANGED <<provider, store, activeGroupId, hiddenTabIds, resp, lastCmd,
                   since, nextSessionId, envCount, currentDuplicates, background,
                   suspension>>

\* the provider calls of the group commands, one after the other; a rejected
\* call ends the handler, with an error response where the dispatcher awaits
\* it
ClusterStep(h) ==
    /\ hs[h].kind \in ClusterKinds \cup EditKinds /\ hs[h].pc = "ops"
    /\ IF ~hs[h].ok
       THEN /\ IF hs[h].kind = "checkAutoGroup"
               THEN SetH(h, [hs[h] EXCEPT !.pc = "done"]) /\ UNCHANGED resp
               ELSE Fail(h, "No such tab or group")
            /\ UNCHANGED <<provider, lastCmd>>
       ELSE IF hs[h].k < Len(hs[h].ops)
       THEN /\ GroupIssue(h)
            /\ UNCHANGED <<nextTabId, resp>>
       ELSE /\ SetH(h, [hs[h] EXCEPT
                    !.pc = "done",
                    !.count = Len(hs[h].ops) \div 2,
                    !.flag = Len(hs[h].ops) > 0])
            /\ resp' = [resp EXCEPT ![h] =
                          IF hs[h].kind = "checkAutoGroup" THEN NoResp
                          ELSE OkResp]
            /\ UNCHANGED <<provider, lastCmd>>
    /\ UNCHANGED <<store, activeGroupId, hiddenTabIds, since, nextSessionId,
                   envCount, currentDuplicates, background, suspension>>

----------------------------------------------------------------------------
(* Clustering: windows of tabs on pages of several origins, tab 1 possibly *)
(* in a group made by hand                                                 *)

ClusterUrls ==
    {Url("https://", <<"www.", "a", ".com">>, <<"x">>),
     Url("https://", <<"a", ".com">>, <<"y">>),
     Url("https://", <<"b", ".com">>, <<"x">>),
     Url("chrome://", <<"settings">>, <<>>),
     Url("file://", <<>>, <<"x">>)}

ClusterDomains == {"a.com", "b.com", "settings", "c.com"}

NumClusterTabs == MaxTabs + 2

ClusterTabs(u, g) ==
    [i \in 1..NumClusterTabs |->
        [id |-> i, url |-> u[i], title |-> "T" \o ToString(i),
         favIconUrl |-> IF i = 1 THEN "" ELSE "icon" \o ToString(i),
         pinned |-> FALSE, active |-> (i = 1),
         groupId |-> IF g /\ i = 1 THEN 1 ELSE TAB_GROUP_ID_NONE]]

ClusterSettings(on, threshold) ==
    [showUngroupedTabs |-> TRUE, maxSessions |-> MaxSessionsBound,
     suspensionTimeout |-> 0, suspensionWhitelist |-> <<>>,
     autoGroupByDomain |-> on, autoGroupThreshold |-> threshold]

InitCluster ==
    /\ \E g \in BOOLEAN :
         /\ tabs \in {ClusterTabs(u, g) : u \in [1..NumClusterTabs -> ClusterUrls]}
         /\ chromeGroups =
              IF g THEN <<[id |-> 1, title |-> "G1", color |-> "blue",
                           collapsed |-> FALSE]>>
              ELSE <<>>
    /\ nextTabId = NumClusterTabs + 1
    /\ nextGroupId = 2
    /\ stActiveGroupId = NULL
    /\ stSettings \in {ClusterSettings(FALSE, 2), ClusterSettings(TRUE, 2),
                       ClusterSettings(TRUE, 0)}
    /\ stSessions = <<>>
    /\ InitWorker

NextCluster ==
    \/ AllIdle /\ StartAutoGroupAll(1)
    \/ AllIdle /\ \E d \in ClusterDomains : StartGroupDomain(1, d)
    \/ AllIdle /\ \E i \in 1..Len(tabs) : OnUpdated(1, i)
    \/ CheckSettings(1)
    \/ ClusterMap(1)
    \/ ClusterStep(1)
    \/ Return(1)
    \/ InitializeAssign(1)
    \/ InitializeRest(1)

SpecCluster == InitCluster /\ [][NextCluster]_vars

ClusterDone(h, kind) == hs[h].kind = kind /\ hs[h].pc = "done"

\* hostname minus a leading 'www.'
Origin(url) ==
    Join(IF url.host # <<>> /\ Head(url.host) = "www." THEN Tail(url.host)
         ELSE url.host)

\* groups made since the handler in slot 1 started
CreatedGroups ==
    {j \in 1..Len(chromeGroups) : chromeGroups[j].id >= hs[1].win.nextGroupId}

Members(gid) == {tabs[i].id : i \in {n \in 1..Len(tabs) : tabs[n].groupId = gid}}

\* the ungrouped tabs of an origin when the handler started
Bucket(ts, origin, system) ==
    {ts[i].id : i \in {n \in 1..Len(ts) :
        /\ ts[n].groupId = TAB_GROUP_ID_NONE
        /\ ts[n].url # NoUrl
        /\ system \/ ~IsSystemPage(ts[n].url)
        /\ Origin(ts[n].url) = origin}}

Origins(ts) ==
    {Origin(ts[i].url) : i \in {n \in 1..Len(ts) :
        ts[n].groupId = TAB_GROUP_ID_NONE /\ ts[n].url # NoUrl}}

\* C21: one invocation of checkAutoGroup creates at most one group; given a
\* triggering URL the group is for that URL's origin only, is named after
\* it, holds exactly the ungrouped non-system tabs of that origin, and these
\* have reached the threshold; nothing is created when autoGroupByDomain is
\* off.
C21_CheckAutoGroup ==
    ClusterDone(1, "checkAutoGroup") =>
        LET w == hs[1].win
            origin == Origin(hs[1].tab.url)
            bucket == Bucket(w.tabs, origin, FALSE)
            n == stSettings.autoGroupThreshold
        IN  /\ Cardinality(CreatedGroups) <= 1
            /\ ~stSettings.autoGroupByDomain =>
                  CreatedGroups = {} /\ tabs = w.tabs
            /\ \A j \in CreatedGroups :
                  /\ chromeGroups[j].title = origin
                  /\ Members(chromeGroups[j].id) = bucket
                  /\ Cardinality(bucket) >= (IF n = 0 THEN 3 ELSE n)

\* C22: autoGroupAll makes one group for every origin that has at least 2
\* ungrouped tabs, named after the origin and holding exactly those tabs,
\* leaves an origin's only tab ungrouped, leaves grouped tabs where they
\* are, and returns the number of groups it made.
C22_AutoGroupAll ==
    (ClusterDone(1, "autoGroupAll") /\ resp[1].status = "ok") =>
        LET w == hs[1].win
            many == {o \in Origins(w.tabs) :
                        Cardinality(Bucket(w.tabs, o, TRUE)) >= 2}
        IN  /\ \A o \in many :
                  Cardinality({j \in CreatedGroups :
                      /\ chromeGroups[j].title = o
                      /\ Members(chromeGroups[j].id) = Bucket(w.tabs, o, TRUE)})
                    = 1
            /\ \A o \in Origins(w.tabs) \ many :
                  \A i \in 1..Len(tabs) :
                      tabs[i].id \in Bucket(w.tabs, o, TRUE) =>
                          tabs[i].groupId = TAB_GROUP_ID_NONE
            /\ \A i \in 1..Len(w.tabs) :
                  w.tabs[i].groupId # TAB_GROUP_ID_NONE => tabs[i] = w.tabs[i]
            /\ Cardinality(CreatedGroups) = Cardinality(many)
            /\ hs[1].count = Cardinality(many)

C22_Witness ==
    /\ ClusterDone(1, "autoGroupAll") /\ resp[1].status = "ok"
    /\ hs[1].count >= 1
    /\ \E i \in 1..Len(tabs) : tabs[i].groupId = 1
    /\ \E i \in 1..Len(tabs) :
          tabs[i].groupId = TAB_GROUP_ID_NONE /\ tabs[i].url # NoUrl

\* C23: no clustering operation (autoGroupAll, checkAutoGroup, the grouping
\* of one domain) puts a tab on a chrome:// or chrome-extension:// page into
\* a group.
C23_SystemPagesNotClustered ==
    hs[1].kind \in ClusterKinds =>
        \A i \in 1..Len(tabs) :
            IsSystemPage(tabs[i].url) =>
                tabs[i].groupId < hs[1].win.nextGroupId

----------------------------------------------------------------------------
(* The domain color, called on strings of every shape                      *)

MaxDomainLen == 3   \* longest string enumerated over ColorAlphabet

\* 'a', '.', 'z'
ColorAlphabet == {97, 46, 122}

\* 'xfjfxtf' hashes to -2^31, 'mail.com' and 'google.com' below zero
NamedDomains ==
    {<<120, 102, 106, 102, 120, 116, 102>>,
     <<109, 97, 105, 108, 46, 99, 111, 109>>,
     <<103, 111, 111, 103, 108, 101, 46, 99, 111, 109>>,
     DomainCodes(<<"a", ".com">>),
     DomainCodes(<<"settings">>)}

DomainPool ==
    NamedDomains
      \cup UNION {[1..n -> ColorAlphabet] : n \in 0..MaxDomainLen}

Favicons == {"", "icon"}

InitColor ==
    /\ tabs = <<>>
    /\ chromeGroups = <<>>
    /\ nextTabId = 1
    /\ nextGroupId = 1
    /\ stActiveGroupId = NULL
    /\ stSettings = ClusterSettings(FALSE, 0)
    /\ stSessions = <<>>
    /\ activeGroupId = NULL
    /\ hiddenTabIds = {}
    /\ suspendedTabs = <<>>
    /\ tabLastActiveTime = [t \in 1..MaxTabId |-> 0]
    /\ clock = 1
    /\ removedPending = {}
    /\ hs = [h \in Handlers |-> IdleH]
    /\ resp = [h \in Handlers |-> NoResp]
    /\ lastCmd = NoCmd
    /\ since = "none"
    /\ nextSessionId = 1
    /\ envCount = 0
    /\ currentDuplicates = <<>>
    /\ alarms = {}
    /\ timeouts = 0
    /\ stGroups = <<>>

\* a caller reaches the await of getColorFromFaviconWithFallback
StartColor(h, favicon, domain) ==
    /\ hs[h].kind = "idle"
    /\ SetH(h, [IdleH EXCEPT !.kind = "color", !.pc = "call",
                             !.favicon = favicon, !.domain = domain])
    /\ UNCHANGED <<provider, store, activeGroupId, hiddenTabIds, resp, lastCmd,
                   since, nextSessionId, envCount, currentDuplicates, background,
                   suspension>>

ColorCall(h) ==
    /\ hs[h].kind = "color" /\ hs[h].pc = "call"
    /\ SetH(h, [hs[h] EXCEPT
            !.pc = "done",
            !.data = getColorFromFaviconWithFallback(hs[h].favicon,
                                                     hs[h].domain)])
    /\ UNCHANGED <<provider, store, activeGroupId, hiddenTabIds, resp, lastCmd,
                   since, nextSessionId, envCount, currentDuplicates, background,
                   suspension>>

NextColor ==
    \/ \E f \in Favicons : \E d \in DomainPool : StartColor(1, f, d)
    \/ ColorCall(1)
    \/ Return(1)

SpecColor == InitColor /\ [][NextColor]_vars

ColorDone(h) == hs[h].kind = "color" /\ hs[h].pc = "done"

SevenColors == {"blue", "red", "yellow", "green", "pink", "purple", "cyan"}

MinInt32 == [hi |-> 2^15, lo |-> 0]

----------------------------------------------------------------------------
(* Duplicates: findDuplicates and normalizeUrl in the service worker, and  *)
(* the duplicates modal of the popup.  A path is the sequence of its       *)
(* pieces, a trailing slash being a piece of its own; a query is the       *)
(* sequence of the pieces of '?...'                                        *)

UrlQ(scheme, host, path, query) ==
    [scheme |-> scheme, host |-> host, path |-> path, query |-> query]

\* normalized.replace(/\/$/, '')
StripSlash(str) ==
    IF Len(str) > 0 /\ str[Len(str)] = "/" THEN SubSeq(str, 1, Len(str) - 1)
    ELSE str

\* never drops the query
normalizeUrl_KeepQuery(url, ignoreQueryParams) ==
    IF url = NoUrl THEN <<>>
    ELSE StripSlash(<<url.scheme>> \o url.host \o url.path \o url.query)

\* new URL('') throws and the url itself, '', is returned
normalizeUrl(url, ignoreQueryParams) ==
    IF url = NoUrl THEN <<>>
    ELSE StripSlash(<<url.scheme>> \o url.host \o url.path
                      \o (IF ~ignoreQueryParams /\ url.query # <<>>
                          THEN url.query ELSE <<>>))

UrlIndex(map, key) ==
    LET idx == {i \in 1..Len(map) : map[i].url = key}
    IN  IF idx = {} THEN 0 ELSE CHOOSE i \in idx : TRUE

\* the body of the loop of findDuplicates: get, push, set
UrlMapAdd(map, tab, ignoreQueryParams) ==
    LET key == normalizeUrl(tab.url, ignoreQueryParams)
        i == UrlIndex(map, key)
    IN  IF i = 0 THEN Append(map, [url |-> key, tabs |-> <<tab>>])
        ELSE [map EXCEPT ![i].tabs = Append(@, tab)]

RECURSIVE BuildUrlMap(_, _, _)
BuildUrlMap(ts, map, ignoreQueryParams) ==
    IF ts = <<>> THEN map
    ELSE BuildUrlMap(Tail(ts), UrlMapAdd(map, Head(ts), ignoreQueryParams),
                     ignoreQueryParams)

\* the tabs of a snapshot in the order the two loops meet them
SnapshotTabs(groups) == Flatten([i \in 1..Len(groups) |-> groups[i].tabs])

findDuplicates(groups, ignoreQueryParams) ==
    SelectSeq(BuildUrlMap(SnapshotTabs(groups), <<>>, ignoreQueryParams),
              LAMBDA e : Len(e.tabs) > 1)

\* GET_DUPLICATES: findDuplicates awaits getTabGroups
GetDuplicatesRec(ignoreQueryParams) ==
    [IdleH EXCEPT !.kind = "getDuplicates", !.pc = "snap", !.qt = tabs,
                  !.ignore = ignoreQueryParams, !.win = WinState,
                  !.flag = (since = "reduced")]

StartGetDuplicates(h, ignoreQueryParams) ==
    /\ hs[h].kind = "idle"
    /\ SetH(h, GetDuplicatesRec(ignoreQueryParams))
    /\ resp' = [resp EXCEPT ![h] = NoResp]
    /\ UNCHANGED <<provider, store, activeGroupId, hiddenTabIds, lastCmd,
                   since, nextSessionId, envCount, currentDuplicates, background,
                   suspension>>

GetDuplicatesSnapshot(h) ==
    /\ hs[h].kind = "getDuplicates" /\ hs[h].pc = "snap"
    /\ LET groups == GetTabGroups(hs[h].qt, chromeGroups)
       IN  SetH(h, [hs[h] EXCEPT
               !.pc = "done", !.qg = chromeGroups, !.groups = groups,
               !.result = findDuplicates(groups, hs[h].ignore)])
    /\ resp' = [resp EXCEPT ![h] = OkResp]
    /\ UNCHANGED <<provider, store, activeGroupId, hiddenTabIds, lastCmd,
                   since, nextSessionId, envCount, currentDuplicates, background,
                   suspension>>

\* CLOSE_TAB: closeTab awaits chrome.tabs.remove
CloseTabRec(tabId) ==
    [IdleH EXCEPT !.kind = "closeTab", !.pc = "respond", !.cur = tabId,
                  !.ok = TabExists(tabs, tabId), !.win = WinState]

TabsAfterClose(tabId) ==
    IF TabExists(tabs, tabId) THEN RemoveTab(tabs, tabId) ELSE tabs

StartCloseTab(h, tabId) ==
    /\ hs[h].kind = "idle"
    /\ SetH(h, CloseTabRec(tabId))
    /\ tabs' = TabsAfterClose(tabId)
    /\ chromeGroups' = RemoveEmptyGroups(TabsAfterClose(tabId), chromeGroups)
    /\ resp' = [resp EXCEPT ![h] = NoResp]
    /\ lastCmd' = [op |-> "remove", id |-> tabId]
    /\ UNCHANGED <<nextTabId, nextGroupId, store, activeGroupId, hiddenTabIds,
                   since, nextSessionId, envCount, currentDuplicates, background,
                   suspension>>

CloseTabRespond(h) ==
    /\ hs[h].kind = "closeTab" /\ hs[h].pc = "respond"
    /\ IF hs[h].ok
       THEN /\ SetH(h, [hs[h] EXCEPT !.pc = "done"])
            /\ resp' = [resp EXCEPT ![h] = OkResp]
       ELSE Fail(h, "No tab with id")
    /\ UNCHANGED <<provider, store, activeGroupId, hiddenTabIds, lastCmd,
                   since, nextSessionId, envCount, currentDuplicates, background,
                   suspension>>

\* The popup: its async functions run in slot p and send their commands to
\* the dispatcher, whose handler runs in slot d

\* showDuplicatesModal is called
StartModal(p) ==
    /\ hs[p].kind = "idle"
    /\ SetH(p, [IdleH EXCEPT !.kind = "modal", !.pc = "query"])
    /\ UNCHANGED <<provider, store, activeGroupId, hiddenTabIds, resp, lastCmd,
                   since, nextSessionId, envCount, currentDuplicates, background,
                   suspension>>

\* showDuplicatesModal sends GET_DUPLICATES with ignoreQueryParams false
PopupQuery(p, d) ==
    /\ hs[p].kind \in {"modal", "keepFirst"} /\ hs[p].pc = "query"
    /\ hs[d].kind = "idle"
    /\ hs' = [hs EXCEPT ![p].pc = "queryWait", ![d] = GetDuplicatesRec(FALSE)]
    /\ UNCHANGED <<provider, store, activeGroupId, hiddenTabIds, resp, lastCmd,
                   since, nextSessionId, envCount, currentDuplicates, background,
                   suspension>>

\* the response arrives: currentDuplicates = response.data
PopupQueryDone(p, d) ==
    /\ hs[p].pc = "queryWait"
    /\ hs[d].kind = "getDuplicates" /\ hs[d].pc = "done"
    /\ currentDuplicates' =
         IF resp[d].status = "ok" THEN hs[d].result ELSE currentDuplicates
    /\ hs' = [hs EXCEPT ![p].pc = "done",
                        ![p].flag = (resp[d].status = "ok"),
                        ![d] = IdleH]
    /\ resp' = [resp EXCEPT ![d] = NoResp]
    /\ UNCHANGED <<provider, store, activeGroupId, hiddenTabIds, lastCmd,
                   since, nextSessionId, envCount, suspension, background>>

\* currentDuplicates[url]
BucketOf(duplicates, url) ==
    IF UrlIndex(duplicates, url) = 0 THEN <<>>
    ELSE duplicates[UrlIndex(duplicates, url)].tabs

\* tabs.slice(1), the ids
RestIds(bucket) == [i \in 1..(Len(bucket) - 1) |-> bucket[i + 1].id]

\* closeDuplicatesForUrl(url) up to its first CLOSE_TAB
StartKeepFirst(p, url) ==
    /\ hs[p].kind = "idle"
    /\ LET bucket == BucketOf(currentDuplicates, url)
       IN  SetH(p, [IdleH EXCEPT
               !.kind = "keepFirst",
               !.pc = IF Len(bucket) <= 1 THEN "done" ELSE "send",
               !.arg = url, !.result = bucket,
               !.ops = IF Len(bucket) <= 1 THEN <<>> ELSE RestIds(bucket),
               !.win = WinState])
    /\ UNCHANGED <<provider, store, activeGroupId, hiddenTabIds, resp, lastCmd,
                   since, nextSessionId, envCount, currentDuplicates, background,
                   suspension>>

\* entries.reduce((sum, [, tabs]) => sum + tabs.length - 1, 0)
RECURSIVE TotalDuplicates(_)
TotalDuplicates(entries) ==
    IF entries = <<>> THEN 0
    ELSE Len(Head(entries).tabs) - 1 + TotalDuplicates(Tail(entries))

\* closes the first tab of every bucket as well
CloseAllIds_First(entries) ==
    Flatten([i \in 1..Len(entries) |->
                [n \in 1..Len(entries[i].tabs) |-> entries[i].tabs[n].id]])

\* the ids the two loops of closeAllDuplicates send
CloseAllIds(entries) ==
    Flatten([i \in 1..Len(entries) |-> RestIds(entries[i].tabs)])

\* closeAllDuplicates up to its first CLOSE_TAB; yes is the answer to confirm
StartCloseAll(p, yes) ==
    /\ hs[p].kind = "idle"
    /\ LET go == Len(currentDuplicates) > 0 /\ yes
       IN  SetH(p, [IdleH EXCEPT
               !.kind = "closeAll",
               !.pc = IF go THEN "send" ELSE "done",
               !.result = currentDuplicates,
               !.count = TotalDuplicates(currentDuplicates),
               !.confirmed = go,
               !.flag = (since = "listed") /\ (go \/ currentDuplicates = <<>>),
               !.ops = IF go THEN CloseAllIds(currentDuplicates) ELSE <<>>,
               !.win = WinState])
    /\ UNCHANGED <<provider, store, activeGroupId, hiddenTabIds, resp, lastCmd,
                   since, nextSessionId, envCount, currentDuplicates, background,
                   suspension>>

\* await sendMessage({type: 'CLOSE_TAB'}) for the next tab, or the code
\* after the loops
PopupSend(p, d) ==
    /\ hs[p].kind \in {"keepFirst", "closeAll"} /\ hs[p].pc = "send"
    /\ IF hs[p].k < Len(hs[p].ops)
       THEN LET tabId == hs[p].ops[hs[p].k + 1]
            IN  /\ hs[d].kind = "idle"
                /\ hs' = [hs EXCEPT ![p].pc = "wait", ![p].k = @ + 1,
                                    ![d] = CloseTabRec(tabId)]
                /\ tabs' = TabsAfterClose(tabId)
                /\ chromeGroups' =
                     RemoveEmptyGroups(TabsAfterClose(tabId), chromeGroups)
                /\ lastCmd' = [op |-> "remove", id |-> tabId]
       ELSE /\ hs' = [hs EXCEPT ![p].pc =
                         IF hs[p].kind = "keepFirst" THEN "query" ELSE "done"]
            /\ UNCHANGED <<tabs, chromeGroups, lastCmd>>
    /\ UNCHANGED <<nextTabId, nextGroupId, store, activeGroupId, hiddenTabIds,
                   resp, since, nextSessionId, envCount, currentDuplicates, background,
                   suspension>>

\* the response to CLOSE_TAB arrives; the loops do not look at it
PopupReceive(p, d) ==
    /\ hs[p].pc = "wait"
    /\ hs[d].kind = "closeTab" /\ hs[d].pc = "done"
    /\ hs' = [hs EXCEPT ![p].pc = "send", ![d] = IdleH]
    /\ resp' = [resp EXCEPT ![d] = NoResp]
    /\ UNCHANGED <<provider, store, activeGroupId, hiddenTabIds, lastCmd,
                   since, nextSessionId, envCount, currentDuplicates, background,
                   suspension>>

\* a tab goes to another page: a redirect, a click in the page
EnvNavigate(i, url) ==
    /\ tabs[i].url # url
    /\ tabs' = [tabs EXCEPT ![i].url = url]
    /\ UNCHANGED <<chromeGroups, nextTabId, nextGroupId>>
    /\ EnvFrame

----------------------------------------------------------------------------
(* Duplicates: windows of tabs on pages that differ in query and trailing  *)
(* slash, one tab possibly in a group; the popup is open                   *)

UrlAX1 == UrlQ("https://", <<"a", ".com">>, <<"/x">>, <<"?x=1">>)
UrlAX2 == UrlQ("https://", <<"a", ".com">>, <<"/x">>, <<"?x=2">>)
UrlB == UrlQ("https://", <<"b", ".com">>, <<"/">>, <<>>)
UrlAXSlash == UrlQ("https://", <<"a", ".com">>, <<"/x", "/">>, <<>>)

DupUrls == {UrlAX1, UrlAX2, UrlB, UrlAXSlash}

NumDupTabs == MaxTabs + 1

DupTabs(u, g) ==
    [i \in 1..NumDupTabs |->
        [id |-> i, url |-> u[i], title |-> "T" \o ToString(i),
         favIconUrl |-> "icon", pinned |-> FALSE, active |-> (i = 1),
         groupId |-> IF i = g THEN 1 ELSE TAB_GROUP_ID_NONE]]

InitDup ==
    /\ tabs \in {DupTabs(u, g) :
                    u \in [1..NumDupTabs -> DupUrls], g \in {0, 2}}
    /\ chromeGroups =
         RemoveEmptyGroups(tabs, <<[id |-> 1, title |-> "G1", color |-> "blue",
                                    collapsed |-> FALSE]>>)
    /\ nextTabId = NumDupTabs + 1
    /\ nextGroupId = 2
    /\ stActiveGroupId = NULL
    /\ stSettings = ClusterSettings(FALSE, 0)
    /\ stSessions = <<>>
    /\ InitWorker

\* the keys the buttons of the modal carry, and one that no bucket has
DupKeys ==
    {currentDuplicates[i].url : i \in 1..Len(currentDuplicates)}
      \cup {<<"https://", "c", ".com">>}

NextDup ==
    \/ AllIdle /\ \E ig \in BOOLEAN : StartGetDuplicates(1, ig)
    \/ GetDuplicatesSnapshot(1)
    \/ AllIdle /\ StartModal(2)
    \/ PopupQuery(2, 1)
    \/ PopupQueryDone(2, 1)
    \/ AllIdle /\ \E key \in DupKeys : StartKeepFirst(2, key)
    \/ AllIdle /\ \E yes \in BOOLEAN : StartCloseAll(2, yes)
    \/ PopupSend(2, 1)
    \/ CloseTabRespond(1)
    \/ PopupReceive(2, 1)
    \/ hs[2].kind = "idle" /\ Return(1)
    \/ Return(2)
    \/ InitializeAssign(1)
    \/ InitializeRest(1)
    \/ AllIdle /\ \E i \in 1..Len(tabs) : EnvCloseTab(i)
    \/ AllIdle /\ \E i \in 1..Len(tabs) : EnvNavigate(i, UrlB)

SpecDup == InitDup /\ [][NextDup]_vars

GetDuplicatesDone(h) == hs[h].kind = "getDuplicates" /\ hs[h].pc = "done"

\* the query dropped iff ignoreQueryParams, then the trailing slash stripped
Normalized(url, ignoreQueryParams) ==
    LET whole == <<url.scheme>> \o url.host \o url.path
                   \o (IF ignoreQueryParams THEN <<>> ELSE url.query)
    IN  IF whole[Len(whole)] = "/" THEN SubSeq(whole, 1, Len(whole) - 1)
        ELSE whole

IdsOf(ts) == [i \in 1..Len(ts) |-> ts[i].id]

OpenIds == {tabs[i].id : i \in 1..Len(tabs)}

\* C25: findDuplicates(ignoreQueryParams) returns buckets of at least 2
\* tabs; a bucket lists all and only the open tabs whose normalized URL is
\* its key, in the order of the snapshot; no tab is in two buckets; for the
\* tabs a.com/x?x=1, a.com/x?x=2 and b.com the result is the one bucket
\* https://a.com/x with both tabs when the query is ignored, and empty when
\* it is not.
C25_FindDuplicates ==
    (GetDuplicatesDone(1) /\ resp[1].status = "ok") =>
        LET r == hs[1].result
            ig == hs[1].ignore
            snap == SnapshotTabs(hs[1].groups)
        IN  /\ {snap[i].id : i \in 1..Len(snap)} = OpenIds
            /\ Len(snap) = Len(tabs)
            /\ \A i \in 1..Len(r) :
                  /\ Len(r[i].tabs) >= 2
                  /\ r[i].tabs =
                       SelectSeq(snap, LAMBDA t : Normalized(t.url, ig) = r[i].url)
                  /\ \A j \in 1..Len(r) : r[j].url = r[i].url => j = i
            /\ \A n \in 1..Len(tabs) :
                  Cardinality({i \in 1..Len(r) :
                      tabs[n].id \in Range(IdsOf(r[i].tabs))}) <= 1
            /\ \A n, k \in 1..Len(tabs) :
                  (n # k /\ Normalized(tabs[n].url, ig)
                              = Normalized(tabs[k].url, ig)) =>
                      \E i \in 1..Len(r) : r[i].url = Normalized(tabs[n].url, ig)
            /\ (/\ Len(tabs) = 3
                /\ tabs[1].url = UrlAX1 /\ tabs[2].url = UrlAX2
                /\ tabs[3].url = UrlB
                /\ \A n \in 1..3 : tabs[n].groupId = TAB_GROUP_ID_NONE) =>
                  IF ig
                  THEN /\ Len(r) = 1
                       /\ r[1].url = <<"https://", "a", ".com", "/x">>
                       /\ IdsOf(r[1].tabs) = <<tabs[1].id, tabs[2].id>>
                  ELSE r = <<>>

C25_Witness ==
    /\ GetDuplicatesDone(1) /\ resp[1].status = "ok"
    /\ hs[1].ignore
    /\ Len(tabs) = 3
    /\ tabs[1].url = UrlAX1 /\ tabs[2].url = UrlAX2 /\ tabs[3].url = UrlB
    /\ Len(hs[1].result) = 1

KeepFirstDone(h) ==
    /\ hs[h].kind = "keepFirst"
    /\ hs[h].pc \in {"query", "queryWait", "done"}

\* C26: keepFirst(url) closes every tab of the bucket but the first, and
\* the first, and only it, is open afterwards, also when tabs of the bucket
\* were closed or changed after the duplicate query; on an absent or
\* single-member bucket it closes nothing.
C26_KeepFirst ==
    KeepFirstDone(2) =>
        LET bucket == hs[2].result
        IN  IF Len(bucket) <= 1 THEN tabs = hs[2].win.tabs
            ELSE Range(IdsOf(bucket)) \cap OpenIds = {bucket[1].id}

CloseAllDone(h) == hs[h].kind = "closeAll" /\ hs[h].pc = "done"

NonFirstIds(entries) ==
    UNION {Range(IdsOf(entries[i].tabs)) \ {entries[i].tabs[1].id} :
             i \in 1..Len(entries)}

----------------------------------------------------------------------------
(* Renaming and deleting groups, one command at a time, the user changing  *)
(* the window in between                                                   *)

NextEdit ==
    \/ AllIdle /\ \E g \in GroupIds : StartRename(1, g, "new")
    \/ AllIdle /\ \E g \in GroupIds : StartDeleteGroup(1, g)
    \/ EditSnapshot(1)
    \/ ClusterStep(1)
    \/ Return(1)
    \/ InitializeAssign(1)
    \/ InitializeRest(1)
    \/ AllIdle /\ EnvChange

SpecEdit == Init /\ [][NextEdit]_vars

EditDone(h) == hs[h].kind \in EditKinds /\ hs[h].pc = "done"

\* the ids of the real groups of the window a handler started in
RealIds(w) == {GroupIdOf(w.chromeGroups[j].id) : j \in 1..Len(w.chromeGroups)}

GroupNumber(w, groupId) ==
    w.chromeGroups[CHOOSE j \in 1..Len(w.chromeGroups) :
                       GroupIdOf(w.chromeGroups[j].id) = groupId].id

\* C30: RENAME_GROUP and DELETE_GROUP for 'ungrouped' or for an id the
\* snapshot does not hold answer with an error and change no title and no
\* membership; DELETE_GROUP for a real group ungroups all its tabs and
\* closes none.
C30_EditGroup ==
    EditDone(1) =>
        LET w == hs[1].win
        IN  IF hs[1].arg \notin RealIds(w)
            THEN /\ resp[1].status = "error"
                 /\ tabs = w.tabs
                 /\ chromeGroups = w.chromeGroups
            ELSE hs[1].kind = "deleteGroup" =>
                    /\ resp[1].status = "ok"
                    /\ Len(tabs) = Len(w.tabs)
                    /\ \A i \in 1..Len(tabs) :
                          /\ tabs[i].id = w.tabs[i].id
                          /\ tabs[i].groupId =
                               IF w.tabs[i].groupId = GroupNumber(w, hs[1].arg)
                               THEN TAB_GROUP_ID_NONE
                               ELSE w.tabs[i].groupId

C30_Witness ==
    /\ EditDone(1) /\ hs[1].kind = "deleteGroup"
    /\ hs[1].arg \in RealIds(hs[1].win)
    /\ Cardinality({i \in 1..Len(hs[1].win.tabs) :
          hs[1].win.tabs[i].groupId = GroupNumber(hs[1].win, hs[1].arg)}) >= 2
    /\ \A i \in 1..Len(tabs) : tabs[i].groupId = TAB_GROUP_ID_NONE

----------------------------------------------------------------------------
(* GET_GROUPS twice while the window stays as it is: the popup asks as     *)
(* soon as the service worker is up, initialize() still awaiting the store *)

NextIdem ==
    \/ \E h \in Handlers : StartGetGroups(h)
    \/ \E h \in Handlers : GetGroupsSnapshot(h)
    \/ InitializeAssign(1)
    \/ InitializeRest(1)

SpecIdem == Init /\ [][NextIdem]_vars

\* the groups part of the two answers
SameGroups ==
    (GetGroupsDone(1) /\ GetGroupsDone(2)) => hs[1].groups = hs[2].groups

\* C29: two GET_GROUPS commands with no provider mutation between them
\* return the same groups in the same order, with the same tabs, names and
\* colors, and the same activeGroupId.
C29_GetGroupsIdempotent ==
    (GetGroupsDone(1) /\ GetGroupsDone(2)) =>
        /\ hs[1].groups = hs[2].groups
        /\ hs[1].data = hs[2].data

----------------------------------------------------------------------------
(* The dispatcher: handleMessage runs one command in slot 1 and answers    *)
(* it; one session may be saved beforehand, and the user may close a tab   *)
(* while the handler awaits                                                *)

\* default: of the switch, reached without an await
StartUnknown(h) ==
    /\ hs[h].kind = "idle"
    /\ SetH(h, [IdleH EXCEPT !.kind = "unknown", !.pc = "done"])
    /\ resp' = [resp EXCEPT ![h] = ErrResp("Unknown message type")]
    /\ UNCHANGED <<provider, store, activeGroupId, hiddenTabIds, lastCmd,
                   since, nextSessionId, envCount, currentDuplicates, background,
                   suspension>>

DispatchUrls ==
    {Url("https://", <<"www.", "a", ".com">>, <<"x">>),
     Url("chrome://", <<"settings">>, <<>>)}

InitDispatch ==
    /\ tabs \in {DupTabs(u, g) :
                    u \in [1..NumDupTabs -> DispatchUrls], g \in {0, 2}}
    /\ chromeGroups =
         RemoveEmptyGroups(tabs, <<[id |-> 1, title |-> "G1", color |-> "blue",
                                    collapsed |-> FALSE]>>)
    /\ nextTabId = NumDupTabs + 1
    /\ nextGroupId = 2
    /\ stActiveGroupId = NULL
    /\ stSettings = ClusterSettings(FALSE, 2)
    /\ stSessions = <<>>
    /\ InitWorker

NextDispatch ==
    \/ AllIdle /\ \E g \in GroupIds : StartFocus(1, g)
    \/ FocusSnapshot(1)
    \/ FocusStep(1)
    \/ AllIdle /\ StartUnfocus(1)
    \/ UnfocusSnapshot(1)
    \/ UnfocusStep(1)
    \/ Badge(1)
    \/ AllIdle /\ StartGetGroups(1)
    \/ GetGroupsSnapshot(1)
    \/ AllIdle /\ stSessions = <<>> /\ StartSave(1, "work")
    \/ SaveSnapshot(1)
    \/ SaveGetSettings(1)
    \/ SaveSet(1)
    \/ SaveRespond(1)
    \/ AllIdle /\ \E sid \in 1..2, append \in BOOLEAN :
                     StartRestore(1, sid, append)
    \/ RestoreFind(1)
    \/ RestoreQueryAll(1)
    \/ RestoreStep(1)
    \/ AllIdle /\ \E sid \in 1..2 : StartDelete(1, sid)
    \/ DeleteSet(1)
    \/ DeleteRespond(1)
    \/ AllIdle /\ \E t \in TabIds : StartSuspend(1, t)
    \/ SuspendCheck(1)
    \/ SuspendWhitelist(1)
    \/ SuspendFinish(1)
    \/ AllIdle /\ \E t \in TabIds : StartUnsuspend(1, t)
    \/ UnsuspendFinish(1)
    \/ AllIdle /\ StartList(1)
    \/ ListStep(1)
    \/ AllIdle /\ StartUpdateSettings(1, [suspensionTimeout |-> 1])
    \/ UpdateSet(1)
    \/ UpdateAlarm(1)
    \/ AllIdle /\ \E g \in GroupIds : StartRename(1, g, "N")
    \/ AllIdle /\ \E g \in GroupIds : StartDeleteGroup(1, g)
    \/ EditSnapshot(1)
    \/ AllIdle /\ StartAutoGroupAll(1)
    \/ AllIdle /\ \E d \in ClusterDomains : StartGroupDomain(1, d)
    \/ ClusterMap(1)
    \/ ClusterStep(1)
    \/ AllIdle /\ \E ig \in BOOLEAN : StartGetDuplicates(1, ig)
    \/ GetDuplicatesSnapshot(1)
    \/ AllIdle /\ \E t \in TabIds : StartCloseTab(1, t)
    \/ CloseTabRespond(1)
    \/ AllIdle /\ StartUnknown(1)
    \/ hs[1].kind = "save" /\ Return(1)
    \/ InitializeAssign(1)
    \/ InitializeRest(1)
    \/ \E i \in 1..Len(tabs) : EnvCloseTab(i)

SpecDispatch == InitDispatch /\ [][NextDispatch]_vars

\* the message types the model delivers
CommandKinds ==
    {"focus", "unfocus", "getGroups", "save", "restore", "delete", "suspend",
     "unsuspend", "list", "update", "rename", "deleteGroup", "autoGroupAll",
     "groupDomain", "getDuplicates", "closeTab", "unknown"}

Settled(h) == hs[h].kind \in CommandKinds /\ hs[h].pc = "done"

InFlight(h) == hs[h].kind \in CommandKinds /\ hs[h].pc # "done"

\* success is a boolean; error is present on a failure
WellFormed(r) ==
    /\ r.status \in {"ok", "error"}
    /\ r.status = "error" => r.error # ""

\* C28: every command sent to the dispatcher, unrecognized message types and
\* throwing handlers included, gets exactly one response {success, data?,
\* error?}: none while the handler runs, one when it has settled, and that
\* one is not replaced; a thrown error gives success=false with the error's
\* message, an unrecognized type gives success=false.
C28_OneResponse ==
    /\ [](/\ InFlight(1) => resp[1] = NoResp
          /\ Settled(1) => WellFormed(resp[1])
          /\ (hs[1].kind = "unknown") => resp[1].status = "error")
    /\ [][Settled(1) /\ hs'[1].kind # "idle" => resp'[1] = resp[1]]_vars

C28_Witness ==
    /\ Settled(1)
    /\ hs[1].kind = "groupDomain"
    /\ resp[1].status = "error"
    /\ envCount = 1

----------------------------------------------------------------------------
(* Two commands of the popup in flight at once: HIDE_OTHER_GROUPS and      *)
(* SHOW_ALL_GROUPS handlers in slots 1 and 2, interleaving at their        *)
(* awaits; one command per slot, the window left alone                     *)

RealGroupIds == {GroupIdOf(chromeGroups[j].id) : j \in 1..Len(chromeGroups)}

NextRace ==
    \/ \E h \in Handlers : \E g \in RealGroupIds : StartFocus(h, g)
    \/ \E h \in Handlers : FocusSnapshot(h)
    \/ \E h \in Handlers : FocusStep(h)
    \/ StartUnfocus(2)
    \/ UnfocusSnapshot(2)
    \/ UnfocusStep(2)
    \/ \E h \in Handlers : Badge(h)
    \/ InitializeAssign(1)
    \/ InitializeRest(1)

SpecRace == Init /\ [][NextRace]_vars

\* the tab ids the handler's hiding loop adds to hiddenTabIds
HiddenBy(h) ==
    {hs[h].ops[k].id :
        k \in {n \in 1..Len(hs[h].ops) : hs[h].ops[n].op = "deactivate"}}

BothSettled ==
    /\ \A h \in Handlers : hs[h].kind \in {"focus", "unfocus"}
    /\ \A h \in Handlers : hs[h].pc = "done" /\ resp[h].status = "ok"

\* C31: for every interleaving at their awaits of focus(g1) with focus(g2),
\* g1 and g2 distinct real groups, or of a focus with an unfocus, once both
\* handlers have completed the focus state is consistent: if activeGroupId
\* is g then g is the only expanded real group and hiddenTabIds is the
\* hidden set computed by the command that set activeGroupId.
C31_InterleavedFocus ==
    (BothSettled /\ (hs[1].kind = "focus" /\ hs[2].kind = "focus"
                        => hs[1].arg # hs[2].arg)) =>
        \A h \in Handlers :
            (hs[h].kind = "focus" /\ activeGroupId = hs[h].arg) =>
                /\ \A g \in RealGroupIds : Expanded(g) <=> g = hs[h].arg
                /\ hiddenTabIds = HiddenBy(h)

----------------------------------------------------------------------------
(* SAVE_SESSION and DELETE_SESSION handlers in slots 1 and 2, interleaving *)
(* at the awaits of storage.saveSession and storage.deleteSession. A       *)
(* delete names a session the popup lists; a handler that ran alone        *)
(* returns, two that overlapped stay as they ended                         *)

StoredIds == {stSessions[i].id : i \in 1..Len(stSessions)}

NextStoreRace ==
    \/ \E h \in Handlers : nextSessionId <= MaxSessionsBound /\ StartSave(h, "work")
    \/ \E h \in Handlers : SaveSnapshot(h)
    \/ \E h \in Handlers : SaveGetSettings(h)
    \/ \E h \in Handlers : SaveSet(h)
    \/ \E h \in Handlers : SaveRespond(h)
    \/ \E h \in Handlers : \E sid \in StoredIds : StartDelete(h, sid)
    \/ \E h \in Handlers : DeleteSet(h)
    \/ \E h \in Handlers : DeleteRespond(h)
    \/ \E h \in Handlers :
          (\A x \in Handlers \ {h} : hs[x].kind = "idle") /\ Return(h)
    \/ InitializeAssign(1)
    \/ InitializeRest(1)

SpecStoreRace == InitSession /\ [][NextStoreRace]_vars

Reported(h, kind) ==
    hs[h].kind = kind /\ hs[h].pc = "done" /\ resp[h].status = "ok"

Savers == {h \in Handlers : hs[h].kind = "save"}

DeletedIds == {hs[h].sid : h \in {x \in Handlers : hs[x].kind = "delete"}}

\* C32: for every interleaving of SAVE_SESSION and DELETE_SESSION commands
\* at their awaits, once all have reported success the persisted list holds
\* every saved session that was neither deleted by id nor evicted by the
\* maxSessions bound, and no session whose DELETE_SESSION reported success.
C32_InterleavedSessions ==
    (\A h \in Handlers : Reported(h, "save") \/ Reported(h, "delete")) =>
        /\ Cardinality(Savers) <= stSettings.maxSessions =>
             \A h \in Savers :
                 hs[h].session.id \notin DeletedIds =>
                     hs[h].session.id \in StoredIds
        /\ StoredIds \cap DeletedIds = {}

----------------------------------------------------------------------------
(* The suspension engine with the user navigating: a tab, suspended or     *)
(* not, is taken to another page from the address bar                      *)

NextNavigate ==
    \/ AllIdle /\ \E t \in TabIds : StartSuspend(1, t)
    \/ SuspendCheck(1)
    \/ SuspendWhitelist(1)
    \/ SuspendFinish(1)
    \/ AllIdle /\ \E t \in TabIds : StartUnsuspend(1, t)
    \/ UnsuspendFinish(1)
    \/ Return(1)
    \/ InitializeAssign(1)
    \/ InitializeRest(1)
    \/ AllIdle /\ \E i \in 1..Len(tabs) : UserCloseTab(i)
    \/ AllIdle /\ \E t \in TabIds : OnRemoved(t)
    \/ AllIdle /\ \E i \in 1..Len(tabs) :
                     EnvNavigate(i, Url("https://", <<"b", ".com">>, <<"index">>))

SpecNavigate == InitSuspend /\ [][NextNavigate]_vars

RecordedIds == {suspendedTabs[i].tabId : i \in 1..Len(suspendedTabs)}

\* C33: with no handler in flight, a suspension record exists for a tab id
\* only if that tab is open and shows the suspended placeholder; the record
\* does not survive the tab being closed, unsuspended, or leaving the
\* placeholder by navigation.
C33_RecordMeansPlaceholder ==
    (AllIdle /\ removedPending = {}) =>
        \A t \in RecordedIds :
            /\ TabExists(tabs, t)
            /\ IsPlaceholder(TabById(tabs, t).url)

----------------------------------------------------------------------------
(* The idle-check alarm: the service worker starting again, the options    *)
(* page saving settings and importing a backup, one at a time              *)

SettingsDocs == {[settings |-> SuspendSettings(t, <<>>)] : t \in Timeouts}

SettingsUpdates ==
    {[suspensionTimeout |-> t] : t \in Timeouts}
      \cup {[showUngroupedTabs |-> FALSE]}

NextAlarm ==
    \/ AllIdle /\ StartInitialize(1)
    \/ InitializeAssign(1)
    \/ InitializeRest(1)
    \/ AllIdle /\ \E updates \in SettingsUpdates : StartUpdateSettings(1, updates)
    \/ UpdateSet(1)
    \/ UpdateAlarm(1)
    \/ Return(1)
    \/ AllIdle /\ \E doc \in SettingsDocs : Import(doc)

SpecAlarm == InitSweep /\ [][NextAlarm]_vars

\* initialize() or the UPDATE_SETTINGS handler takes its last step
Completes ==
    \/ hs[1].kind = "initialize" /\ hs'[1].kind = "idle"
    \/ hs[1].kind = "update" /\ hs[1].pc = "alarm" /\ hs'[1].pc = "done"

\* C35: after initialization and after every UPDATE_SETTINGS command
\* completes, the 'idle-check' alarm is scheduled if and only if the stored
\* suspensionTimeout is greater than 0, for every sequence of initialize,
\* UPDATE_SETTINGS and data-import operations.
C35_IdleCheckFollowsTimeout ==
    [][Completes =>
          (("idle-check" \in alarms') <=> (stSettings'.suspensionTimeout > 0))]_vars

----------------------------------------------------------------------------
(* Saving the groups: the listeners of the structural events call          *)
(* debouncedSave, whose timeout runs the save; the 'auto-save' alarm runs  *)
(* the same save in slot 2. The delay is longer than a save takes: a save  *)
(* in flight has finished when a timeout fires                             *)

SaveKinds == {"debouncedSave", "autoSave"}

\* more events than one, so that the events come in bursts
MaxEvents == MaxEnvChanges + 1

EventFrame ==
    /\ envCount < MaxEvents
    /\ envCount' = envCount + 1
    /\ timeouts' = DebouncedCall(timeouts)
    /\ UNCHANGED <<nextTabId, nextGroupId, store, activeGroupId, hiddenTabIds,
                   hs, resp, lastCmd, since, nextSessionId, suspension,
                   currentDuplicates, alarms, stGroups>>

\* the user collapses or expands a group: tabGroups.onUpdated
GroupUpdated(j) ==
    /\ chromeGroups' = [chromeGroups EXCEPT ![j].collapsed = ~@]
    /\ UNCHANGED tabs
    /\ EventFrame

\* the user takes a tab out of its group: tabs.onUpdated with
\* changeInfo.groupId, and tabGroups.onRemoved when the group is left empty
TabUngrouped(i) ==
    /\ IsGrouped(tabs[i])
    /\ LET ts == [tabs EXCEPT ![i].groupId = TAB_GROUP_ID_NONE]
       IN  /\ tabs' = ts
           /\ chromeGroups' = RemoveEmptyGroups(ts, chromeGroups)
    /\ EventFrame

\* the timeout of debounce runs fn and sets timeoutId = null, or the alarm
\* 'auto-save' fires; the save awaits its two queries
StartGroupsSave(h, kind) ==
    /\ hs[h].kind = "idle"
    /\ IF kind = "debouncedSave"
       THEN /\ timeouts > 0
            /\ \A x \in Handlers : hs[x].kind \notin SaveKinds
            /\ timeouts' = timeouts - 1
       ELSE /\ "auto-save" \in alarms
            /\ UNCHANGED timeouts
    /\ SetH(h, [IdleH EXCEPT !.kind = kind, !.pc = "snap", !.qt = tabs])
    /\ UNCHANGED <<provider, store, activeGroupId, hiddenTabIds, resp, lastCmd,
                   since, nextSessionId, envCount, currentDuplicates, alarms,
                   stGroups, suspension>>

\* the group query is answered; storage.saveGroups(groups) is awaited
GroupsSaveSet(h) ==
    /\ hs[h].kind \in SaveKinds /\ hs[h].pc = "snap"
    /\ stGroups' = GetTabGroups(hs[h].qt, chromeGroups)
    /\ SetH(h, [hs[h] EXCEPT !.pc = "set", !.qg = chromeGroups,
                             !.groups = GetTabGroups(hs[h].qt, chromeGroups)])
    /\ UNCHANGED <<provider, store, activeGroupId, hiddenTabIds, resp, lastCmd,
                   since, nextSessionId, envCount, currentDuplicates, alarms,
                   timeouts, suspension>>

\* the write has settled and the save returns
GroupsSaveDone(h) ==
    /\ hs[h].kind \in SaveKinds /\ hs[h].pc = "set"
    /\ SetH(h, IdleH)
    /\ UNCHANGED <<provider, store, activeGroupId, hiddenTabIds, resp, lastCmd,
                   since, nextSessionId, envCount, currentDuplicates,
                   background, suspension>>

InitSave ==
    /\ InitProvider
    /\ stActiveGroupId = NULL
    /\ stSettings = [showUngroupedTabs |-> TRUE, maxSessions |-> MaxSessionsBound,
                     autoSaveEnabled |-> TRUE, suspensionTimeout |-> 0]
    /\ stSessions = <<>>
    /\ InitWorker

NextSave ==
    \/ \E j \in 1..Len(chromeGroups) : GroupUpdated(j)
    \/ \E i \in 1..Len(tabs) : TabUngrouped(i)
    \/ \E i \in 1..Len(tabs) : ~IsGrouped(tabs[i]) /\ UserCloseTab(i)
    \/ \E t \in TabIds : OnRemoved(t)
    \/ StartGroupsSave(1, "debouncedSave")
    \/ StartGroupsSave(2, "autoSave")
    \/ \E h \in Handlers : GroupsSaveSet(h)
    \/ \E h \in Handlers : GroupsSaveDone(h)
    \/ InitializeAssign(1)
    \/ InitializeRest(1)

SpecSave == InitSave /\ [][NextSave]_vars

\* no deadline armed, no listener awaiting, no save in flight
Quiet ==
    /\ timeouts = 0
    /\ removedPending = {}
    /\ AllIdle

----------------------------------------------------------------------------
(* Clustering under thresholds written through UPDATE_SETTINGS *)

ThresholdUrls ==
    {Url("https://", <<"www.", "a", ".com">>, <<"x">>),
     Url("https://", <<"a", ".com">>, <<"y">>),
     Url("https://", <<"b", ".com">>, <<"x">>)}

\* payloads of UPDATE_SETTINGS that carry autoGroupThreshold; the handler
\* merges the payload as it comes
ThresholdUpdates == {[autoGroupThreshold |-> n] : n \in 1..MaxTabs}

InitThreshold ==
    /\ tabs \in {ClusterTabs(u, FALSE) : u \in [1..NumClusterTabs -> ThresholdUrls]}
    /\ chromeGroups = <<>>
    /\ nextTabId = NumClusterTabs + 1
    /\ nextGroupId = 1
    /\ stActiveGroupId = NULL
    /\ stSettings \in {ClusterSettings(TRUE, 0), ClusterSettings(TRUE, 2)}
    /\ stSessions = <<>>
    /\ InitWorker

NextThreshold ==
    \/ AllIdle /\ \E updates \in ThresholdUpdates : StartUpdateSettings(1, updates)
    \/ UpdateSet(1)
    \/ UpdateAlarm(1)
    \/ AllIdle /\ StartAutoGroupAll(1)
    \/ AllIdle /\ \E d \in ClusterDomains : StartGroupDomain(1, d)
    \/ AllIdle /\ \E i \in 1..Len(tabs) : OnUpdated(1, i)
    \/ CheckSettings(1)
    \/ ClusterMap(1)
    \/ ClusterStep(1)
    \/ Return(1)
    \/ InitializeAssign(1)
    \/ InitializeRest(1)

SpecThreshold == InitThreshold /\ [][NextThreshold]_vars

\* C36: no group made by autoGroupAll, checkAutoGroup or per-domain grouping
\* has fewer than 2 tabs, whatever autoGroupThreshold was stored through
\* UPDATE_SETTINGS or left unset.
C36_NoSingleTabGroup ==
    \A j \in 1..Len(chromeGroups) :
        Cardinality(Members(chromeGroups[j].id)) >= 2

----------------------------------------------------------------------------
(* Focus and unfocus while the user closes tabs: a provider call on a tab  *)
(* or group that is gone rejects, and the handler ends in its catch clause *)

NextClose ==
    \/ AllIdle /\ \E g \in GroupIds : StartFocus(1, g)
    \/ FocusSnapshot(1)
    \/ FocusStep(1)
    \/ AllIdle /\ StartUnfocus(1)
    \/ UnfocusSnapshot(1)
    \/ UnfocusStep(1)
    \/ Badge(1)
    \/ Return(1)
    \/ InitializeAssign(1)
    \/ InitializeRest(1)
    \/ \E i \in 1..Len(tabs) : EnvCloseTab(i)

SpecClose == Init /\ [][NextClose]_vars

\* C37: with no handler in flight, hiddenTabIds is empty whenever
\* activeGroupId is none, also after a focus command that a provider error
\* ended partway.
C37_NoFocusNothingHidden ==
    (AllIdle /\ activeGroupId = NULL) => hiddenTabIds = {}

----------------------------------------------------------------------------
(* Focus, unfocus, DELETE_GROUP and CLOSE_TAB one after the other, from a  *)
(* store that names no active group                                        *)

InitStale == Init /\ stActiveGroupId = NULL

NextStale ==
    \/ AllIdle /\ \E g \in GroupIds : StartFocus(1, g)
    \/ FocusSnapshot(1)
    \/ FocusStep(1)
    \/ AllIdle /\ StartUnfocus(1)
    \/ UnfocusSnapshot(1)
    \/ UnfocusStep(1)
    \/ Badge(1)
    \/ AllIdle /\ \E g \in GroupIds : StartDeleteGroup(1, g)
    \/ EditSnapshot(1)
    \/ ClusterStep(1)
    \/ AllIdle /\ \E t \in 1..MaxTabs : StartCloseTab(1, t)
    \/ CloseTabRespond(1)
    \/ Return(1)
    \/ InitializeAssign(1)
    \/ InitializeRest(1)

SpecStale == InitStale /\ [][NextStale]_vars

\* C38: with no handler in flight, an activeGroupId that is not none is the
\* id of a group of a fresh snapshot.
C38_ActiveGroupExists ==
    (AllIdle /\ activeGroupId # NULL) =>
        FindGroup(GetTabGroups(tabs, chromeGroups), activeGroupId) # 0

----------------------------------------------------------------------------
(* Tabs closing while an idle sweep or a suspend command is between awaits: *)
(* the removed listener runs whenever its updateBadge has been answered     *)

NextRemove ==
    \/ AllIdle /\ StartSweep(1)
    \/ SweepSettings(1)
    \/ SweepLoop(1)
    \/ AllIdle /\ \E t \in TabIds : StartSuspend(1, t)
    \/ SuspendCheck(1)
    \/ SuspendWhitelist(1)
    \/ SuspendFinish(1)
    \/ Return(1)
    \/ InitializeAssign(1)
    \/ InitializeRest(1)
    \/ \E i \in 1..Len(tabs) : UserCloseTab(i)
    \/ \E t \in TabIds : OnRemoved(t)
    \/ \E i \in 1..Len(tabs) : UserActivate(i)
    \/ AllIdle /\ Tick

SpecRemove == InitSweep /\ [][NextRemove]_vars

ClockedIds == {t \in DOMAIN tabLastActiveTime : tabLastActiveTime[t] # 0}

\* C39: once the removed listeners, sweeps and suspend commands have all
\* completed, tabLastActiveTime and suspendedTabs hold entries only for tabs
\* that are still open.
C39_EntriesOnlyForOpenTabs ==
    (AllIdle /\ removedPending = {}) =>
        /\ ClockedIds \subseteq OpenIds
        /\ RecordedIds \subseteq OpenIds

----------------------------------------------------------------------------
(* Suspending again: suspend commands and idle sweeps over tabs that may   *)
(* already show the placeholder                                            *)

ResuspendUrls ==
    {Url("https://", <<"b", ".com">>, <<"index">>),
     Url("chrome://", <<"settings">>, <<>>)}

InitResuspend ==
    /\ tabs \in {SuspendTabs(u, {}, 1) : u \in [1..MaxTabs -> ResuspendUrls]}
    /\ chromeGroups = <<>>
    /\ nextTabId = MaxTabs + 1
    /\ nextGroupId = 1
    /\ stActiveGroupId = NULL
    /\ stSettings = SuspendSettings(1, <<>>)
    /\ stSessions = <<>>
    /\ InitWorker

NextResuspend ==
    \/ AllIdle /\ \E t \in 1..MaxTabs : StartSuspend(1, t)
    \/ AllIdle /\ StartSweep(1)
    \/ SweepSettings(1)
    \/ SweepLoop(1)
    \/ SuspendCheck(1)
    \/ SuspendWhitelist(1)
    \/ SuspendFinish(1)
    \/ Return(1)
    \/ InitializeAssign(1)
    \/ InitializeRest(1)
    \/ AllIdle /\ \E i \in 1..Len(tabs) : UserActivate(i)
    \/ AllIdle /\ Tick

SpecResuspend == InitResuspend /\ [][NextResuspend]_vars

\* C40: the originalUrl of every suspension record is a URL that is neither
\* the placeholder nor a system page; suspending a tab that already shows
\* the placeholder, by command or by a later sweep, leaves its record's
\* originalUrl as it was.
C40_OriginalUrlIsAPage ==
    \A i \in 1..Len(suspendedTabs) :
        LET url == suspendedTabs[i].originalUrl
        IN  /\ url # NoUrl
            /\ ~IsSystemPage(url)
            /\ ~IsPlaceholder(url)
            /\ ~Includes(url.path, <<SUSPENDED_PAGE>>)

\* a sweep called suspendTab for a tab whose record exists; chrome.tabs.get
\* showed the placeholder, and the record still names the page
C40_Witness ==
    /\ hs[1].kind = "sweep" /\ hs[1].pc \in {"loop", "done"}
    /\ hs[1].k >= 1 /\ hs[1].k <= Len(hs[1].qt)
    /\ IsPlaceholder(hs[1].tab.url)
    /\ MapIndex(suspendedTabs, hs[1].cur) # 0
    /\ suspendedTabs[MapIndex(suspendedTabs, hs[1].cur)].originalUrl
         = Url("https://", <<"b", ".com">>, <<"index">>)

====
